---- MODULE Spec2Model ----
(***************************************************************************)
(* IP deliverability reputation engine (golang-backend-service).           *)
(*                                                                         *)
(* Three specifications share the variables of this module:                *)
(*   Spec      the reputation aggregator (Start/Stop, ticker goroutine,    *)
(*             immediate run, on-demand aggregation, manual quarantine)    *)
(*             over the smtp_failures / ip_reputation_metrics / ip_actions *)
(*             tables;                                                     *)
(*   IngestSpec  the delivery-failure webhook and the event store;         *)
(*   ProvSpec  the IONOS provisioner (ReserveCleanIPs), CheckQuota and     *)
(*             CleanupSingleIPBlocks over the upstream block inventory     *)
(*             and the reserved_ips / ip_reservation_attempts tables.      *)
(*                                                                         *)
(* Ratios: the code compares float64(rejected)/float64(sent) with the      *)
(* literals 0.05, 0.03, 0.02.  For the integer ranges here the IEEE        *)
(* comparison agrees with the exact one, so thresholds are kept as         *)
(* percentages and compared by cross-multiplication.                       *)
(***************************************************************************)
EXTENDS Integers, Sequences, FiniteSets, TLC

\* ------------------------------------------------------------------ bounds
\* model time runs 0..MaxTime, in units of one rolling window
MaxTime == 1
\* number of distinct webhook events (fingerprints) the MTA can deliver
NumEvents == 2
\* ticks the ticker delivers in one behaviour
MaxTicks == 1
\* main calls AggregationService.Start once
StartCalls == 1
\* manual-quarantine requests in one behaviour
MaxRequests == 1
\* faults of the environment in one behaviour: failed database statements, failed
\* upstream (IONOS API) calls, blocks the upstream still reports without an address
MaxFaults == 1
\* webhook deliveries (first deliveries and re-deliveries) in one behaviour
MaxDeliveries == 4
\* the largest count a reserve request asks for
MaxCount == 1
\* blocks the upstream account holds before the first request
MaxPreBlocks == 1
\* the configured max_quota (estimated upstream limit of blocks)
MaxQuota == 1
\* CleanupSingleIPBlocks calls in one behaviour
MaxCleanups == 1
\* failures in the window of an estimateTotalSent call (specification EstimateSpec)
MaxFailureCount == 9
\* the largest count of a failure group of a simulate-failures request
MaxGroupCount == 2
\* simulate-failures requests in one behaviour
MaxSimulations == 2
\* seconds that pass while the simulate-failures requests run
MaxSeconds == 1
\* blocks the account may hold when a reserved IP is deleted (specification DeleteSpec)
MaxInventory == 2
\* events the store may hold when the aggregator starts (specification RunSpec)
SeedEvents == 3
\* the largest number of IPs of one BatchCheckDNSBL call
MaxBatch == 3
\* the largest number of pieces of a recipient address
MaxPieces == 4
\* the largest number of failures in the window of the classifier
MaxWindow == 4
\* the largest number of events of one webhook payload
MaxPayload == 2

\* ------------------------------------------------------- program constants
\* DefaultReputationConfig (percentages for the ratio thresholds)
MinVolumeForAssessment == 50
BlacklistRejectionRatioPct == 5
BlacklistMinDomains == 3
BlacklistMinMajorProviders == 2
QuarantineRejectionRatioPct == 3
QuarantineMinDomains == 2
WarningRejectionRatioPct == 2
\* ReserveCleanIPs: maxAttempts := count * 5
AttemptsPerIP == 5
\* CleanupSingleIPBlocks / CheckQuota: the protected and the single block size
ProtectedBlockSize == 11
SingleBlockSize == 1
\* reverseIP: the number of dot-separated parts of an address
IPv4Parts == 4
\* rejection_ratio DECIMAL(5,4): four decimals
DecimalScale == 10000
\* the response statuses of the handlers
StatusOK == 200
StatusBadRequest == 400
StatusInternalServerError == 500
StatusCreated == 201
\* net.ParseIP: the largest value of a part of an IPv4 address
MaxOctet == 255
\* estimateTotalSent
EstimateFactor == 20
EstimateOnError == 100
\* the rolling window (WindowMinutes: 15) is one unit of model time
WindowUnits == 1

DefaultReputationConfig ==
  [ MinVolumeForAssessment     |-> MinVolumeForAssessment,
    BlacklistRejectionRatio    |-> BlacklistRejectionRatioPct,
    BlacklistMinDomains        |-> BlacklistMinDomains,
    BlacklistMinMajorProviders |-> BlacklistMinMajorProviders,
    QuarantineRejectionRatio   |-> QuarantineRejectionRatioPct,
    QuarantineMinDomains       |-> QuarantineMinDomains,
    WarningRejectionRatio      |-> WarningRejectionRatioPct ]

Statuses == {"healthy", "warning", "quarantine", "blacklisted"}

MajorProviderSet ==
  { "gmail.com", "googlemail.com", "outlook.com", "hotmail.com", "live.com",
    "yahoo.com", "ymail.com", "aol.com", "icloud.com", "me.com",
    "protonmail.com", "mail.com" }

IsMajorProvider(domain) == domain \in MajorProviderSet

\* ------------------------------------------------------------ the classifier
\* codes[c] of a Go map: 0 when the key is absent
CodeCount(codes, c) == IF c \in DOMAIN codes THEN codes[c] ELSE 0

primaryCodes == {"5.7.1", "5.7.606", "5.7.512"}
authCodes    == {"5.7.23", "5.7.26"}
infraCodes   == {"5.7.25", "5.7.27", "5.7.7", "5.1.8"}
policyCodes  == {"4.7.0", "4.7.1", "5.7.510"}

\* the test with "count equals the threshold" for "count reaches the threshold"
hasReputationRelatedCodes_exactCount(codes) ==
  \/ \E c \in primaryCodes : CodeCount(codes, c) = 2
  \/ \E c \in authCodes    : CodeCount(codes, c) = 3
  \/ \E c \in infraCodes   : CodeCount(codes, c) = 3
  \/ \E c \in policyCodes  : CodeCount(codes, c) = 5

hasReputationRelatedCodes(codes) ==
  \/ \E c \in primaryCodes : CodeCount(codes, c) >= 2
  \/ \E c \in authCodes    : CodeCount(codes, c) >= 3
  \/ \E c \in infraCodes   : CodeCount(codes, c) >= 3
  \/ \E c \in policyCodes  : CodeCount(codes, c) >= 5

hasRepeated571Patterns(codes) == CodeCount(codes, "5.7.1") >= 5

\* RejectionRatio is the pair <<rejected, sent>> (<<0, 1>> when nothing was sent)
RatioGT(r, pct)  == 100 * r[1] >  pct * r[2]
RatioGEQ(r, pct) == 100 * r[1] >= pct * r[2]

isBlacklisted(m, config) ==
  /\ RatioGT(m.RejectionRatio, config.BlacklistRejectionRatio)
  /\ m.UniqueDomainsRejected >= config.BlacklistMinDomains
  /\ Cardinality(m.MajorProviders) >= config.BlacklistMinMajorProviders
  /\ hasReputationRelatedCodes(m.ReputationCodes)

isQuarantined(m, config) ==
  \/ /\ RatioGT(m.RejectionRatio, config.QuarantineRejectionRatio)
     /\ Cardinality(m.MajorProviders) >= 1
  \/ /\ RatioGT(m.RejectionRatio, config.BlacklistRejectionRatio)
     /\ m.UniqueDomainsRejected >= config.QuarantineMinDomains

\* the warning test with "ratio above the threshold" for "ratio at or above it"
isWarning_strictRatio(m, config) ==
  \/ RatioGT(m.RejectionRatio, config.WarningRejectionRatio)
  \/ (m.ThrottleCount > 10 /\ m.TotalRejected > 0)
  \/ hasRepeated571Patterns(m.ReputationCodes)

isWarning(m, config) ==
  \/ RatioGEQ(m.RejectionRatio, config.WarningRejectionRatio)
  \/ (m.ThrottleCount > 10 /\ m.TotalRejected > 0)
  \/ hasRepeated571Patterns(m.ReputationCodes)

\* the classification without its test of the minimum volume
DetermineIPStatus_noMinVolume(m, config) ==
  IF isBlacklisted(m, config) THEN "blacklisted"
  ELSE IF isQuarantined(m, config) THEN "quarantine"
  ELSE IF isWarning(m, config) THEN "warning"
  ELSE "healthy"

DetermineIPStatus(m, config) ==
  IF m.TotalSent < config.MinVolumeForAssessment THEN "healthy"
  ELSE IF isBlacklisted(m, config) THEN "blacklisted"
  ELSE IF isQuarantined(m, config) THEN "quarantine"
  ELSE IF isWarning(m, config) THEN "warning"
  ELSE "healthy"

\* strings.HasPrefix(code, "4") for the enhanced codes of the model
ThrottleCodes == {"4.7.0", "4.7.1", "4.2.1", "4.2.2"}

\* the division without its test of the divisor
rejectionRatio_unguarded(rejected, totalSent) == <<rejected, totalSent>>

\* if totalSent > 0 { RejectionRatio = float64(TotalRejected) / float64(totalSent) },
\* 0.0 otherwise
rejectionRatio(rejected, totalSent) ==
  IF totalSent > 0 THEN <<rejected, totalSent>> ELSE <<0, 1>>

\* the health snapshot of a set of failure rows and a sent estimate
CalculateIPHealthCheck(failures, totalSent) ==
  LET coded == {f \in failures : f.enhanced_code # ""}
      cs    == {f.enhanced_code : f \in coded}
  IN [ TotalSent             |-> totalSent,
       TotalRejected         |-> Cardinality(failures),
       RejectionRatio        |-> rejectionRatio(Cardinality(failures), totalSent),
       UniqueDomainsRejected |-> Cardinality({f.recipient_domain : f \in failures}),
       MajorProviders        |-> {f.recipient_domain : f \in
                                    {g \in failures : IsMajorProvider(g.recipient_domain)}},
       ReputationCodes       |-> [c \in cs |->
                                    Cardinality({f \in coded : f.enhanced_code = c})],
       ThrottleCount         |-> Cardinality({f \in coded :
                                    f.enhanced_code \in ThrottleCodes}) ]

\* --------------------------------------------------------- the event store
\* the INSERT without its ON CONFLICT clause
InsertSMTPFailure_always(store, failure) == store \cup {failure}

\* INSERT ... ON CONFLICT (event_id) DO NOTHING
InsertSMTPFailure(store, failure) ==
  IF \E r \in store : r.event_id = failure.event_id
  THEN store
  ELSE store \cup {failure}

\* WHERE sending_ip = $1 AND timestamp >= $2
GetSMTPFailuresByIP(store, ip, since) ==
  {r \in store : r.sending_ip = ip /\ r.timestamp >= since}

\* the scan with a window that excludes its first instant
GetIPsNeedingAggregation_afterSince(store, since) ==
  {r.sending_ip : r \in {q \in store : q.timestamp > since}}

\* SELECT DISTINCT sending_ip ... WHERE timestamp >= $1
GetIPsNeedingAggregation(store, since) ==
  {r.sending_ip : r \in {q \in store : q.timestamp >= since}}

\* failureCount * 20, clamped below by MinVolumeForAssessment
estimateTotalSent(failureCount, config) ==
  IF failureCount * EstimateFactor < config.MinVolumeForAssessment
  THEN config.MinVolumeForAssessment
  ELSE failureCount * EstimateFactor


\* ======================================================================
\* State
\* ======================================================================
VARIABLES
  now,               \* the clock, 0..MaxTime
  smtp_failures,     \* table smtp_failures: a set of rows, unique by event_id
  landed,            \* history: the rows inserted while a run was between its scan and its return
  metrics,           \* table ip_reputation_metrics: ip -> row, or NotFound
  ip_actions,        \* table ip_actions: the rows in insertion order
  dnsbl_dispatched,  \* IPs for which an asynchronous CheckDNSBL was started
  status_log,        \* history: the <<ip, prev, new, writer>> changes of the stored status
  running,           \* AggregationService.running
  mu,                \* AggregationService.mu: "free" or its holder
  ticker,            \* AggregationService.ticker: [active, c] (c: ticks buffered in ticker.C)
  stats,             \* AggregationService.ipsProcessed / errors / lastRun
  agg,               \* per goroutine: position and locals of the aggregation code
  calls,             \* how many Start calls, ticks, requests, deliveries and faults so far
  hooks,             \* per webhook handler goroutine: position, the failure row it built, its response
  last_ingest,       \* history: what the last InsertSMTPFailure call found and did
  first_rows,        \* history: for every fingerprint, the row of its first successful insert
  blocks,            \* the upstream (IONOS) inventory: a set of blocks [id, size, ips]
  reserved_ips,      \* table reserved_ips: a set of rows, unique by ip
  attempts,          \* table ip_reservation_attempts: a set of rows
  quota_snapshots,   \* table ionos_quota_snapshots: a set of rows
  wf,                \* per provisioner workflow (a ReserveCleanIPs call): position and locals
  cleanup,           \* the CleanupSingleIPBlocks call: position and locals
  batch,             \* one BatchCheckDNSBL call: its IPs, its goroutines, its results
  classifier,        \* the classifier over one window: its inputs, its snapshot, the stored row
  extracted,         \* one recipient address and the failure row the webhook built from it
  suite,             \* one executeTestCase call: its case, its loop position, its rows, its result
  dnsbl_probe,       \* one DNSBL probe: its input and what each prober answered
  vetting,           \* history: for every row the provisioner stored, the outcome of its probe
  cleanup_deleted    \* history: the blocks cleanup deleted upstream, as they were at that moment

aggVars == <<now, smtp_failures, landed, metrics, ip_actions, dnsbl_dispatched, status_log,
             running, mu, ticker, stats, agg, calls>>

ingVars == <<hooks, last_ingest, first_rows>>

provVars == <<blocks, reserved_ips, attempts, quota_snapshots, wf, cleanup,
              vetting, cleanup_deleted>>

fnVars == <<dnsbl_probe, batch, classifier, extracted, suite>>

NotFound == [Status |-> "not_found"]

\* the sending IPs of the model
IPs == {"203.0.113.10", "203.0.113.11"}

\* the webhook event with fingerprint id: its content is fixed by the fingerprint.
\* A recipient is a sequence of pieces of text, "@" being a piece of its own.
EventIP(id)        == IF id % 3 = 0 THEN "203.0.113.11" ELSE "203.0.113.10"
EventRecipient(id) == IF id % 3 = 0 THEN <<"ops", "@", "example.com">>
                      ELSE IF id % 3 = 1 THEN <<"a", "@", "b", "@", "gmail.com">>
                      ELSE <<"user", "@", "outlook.com">>
EventCode(id)      == IF id % 3 = 0 THEN "4.7.0" ELSE "5.7.1"
\* createdAt: absent (or unparsable) for odd fingerprints; for even ones an RFC3339
\* time one window before time 0 (the provider delivers the event late)
EventCreatedAt(id) == IF id % 2 = 0 THEN [present |-> TRUE, t |-> 0 - WindowUnits]
                      ELSE [present |-> FALSE, t |-> 0]
EventIds == 1..NumEvents

RECURSIVE Concat(_)
Concat(pieces) == IF pieces = <<>> THEN "" ELSE Head(pieces) \o Concat(Tail(pieces))

\* ExtractDomain: the text after the last '@', the whole text when there is none
ExtractDomain(email) ==
  LET ats == {i \in DOMAIN email : email[i] = "@"}
  IN IF ats = {} THEN Concat(email)
     ELSE LET last == CHOOSE i \in ats : \A j \in ats : j <= i
          IN Concat(SubSeq(email, last + 1, Len(email)))

\* the SMTPFailure the webhook handler builds for event id at time t:
\* Timestamp is time.Now() unless createdAt parses
buildFailure(id, t) ==
  [ event_id |-> id, sending_ip |-> EventIP(id),
    recipient_domain |-> ExtractDomain(EventRecipient(id)),
    enhanced_code |-> EventCode(id),
    timestamp |-> IF EventCreatedAt(id).present THEN EventCreatedAt(id).t ELSE t ]

\* goroutines that run aggregation code: the immediate run of the k-th Start,
\* the ticker goroutine, and the HTTP handler of POST /ips/{ip}/quarantine
InitProcs == {<<"init", k>> : k \in 1..StartCalls}
TickProc  == <<"tick", 0>>
ReqProc   == <<"req", 0>>
AggProcs  == InitProcs \cup {TickProc, ReqProc}

IdleLocals ==
  [ pc |-> "idle", todo |-> {}, ip |-> "", oldStatus |-> "", firstObs |-> FALSE,
    totalSent |-> 0, status |-> "", success |-> 0, errs |-> 0, found |-> 0 ]

\* positions inside runAggregation (including the per-IP aggregateIPMetrics)
RunPCs == {"run_start", "run_geterr", "agg_read", "agg_save", "agg_action", "run_stats"}
InRun(p) == p \in InitProcs \cup {TickProc} /\ agg[p].pc \in RunPCs

\* NewAggregationService and empty tables
AggAtRest ==
  /\ metrics = [ip \in IPs |-> NotFound]
  /\ ip_actions = <<>>
  /\ dnsbl_dispatched = {}
  /\ status_log = {}
  /\ running = FALSE
  /\ mu = "free"
  /\ ticker = [active |-> FALSE, c |-> 0]
  /\ stats = [ipsProcessed |-> 0, errors |-> 0, lastRun |-> -1]
  /\ agg = [p \in AggProcs |-> IdleLocals]
  /\ calls = [starts |-> 0, ticks |-> 0, requests |-> 0, faults |-> 0, deliveries |-> 0,
              cleanups |-> 0]

AggInit ==
  /\ now = 0
  /\ smtp_failures = {}
  /\ landed = {}
  /\ AggAtRest

\* the aggregator's store with events delivered before the service started: any
\* of the first SeedEvents events, each delivered one window ago or just now
SeedStores ==
  { {buildFailure(id, when[id]) : id \in ids} :
      ids \in SUBSET (1..SeedEvents), when \in [1..SeedEvents -> {0 - WindowUnits, 0}] }

\* ----------------------------------------------------------- environment
AdvanceTime ==
  /\ now < MaxTime
  /\ now' = now + 1
  /\ UNCHANGED <<smtp_failures, landed, metrics, ip_actions, dnsbl_dispatched, status_log,
                 running, mu, ticker, stats, agg, calls>>
  /\ UNCHANGED <<ingVars, provVars, fnVars>>

\* a run (the immediate one or the ticker's) that has scanned and not yet returned
pastScan(p) == agg[p].pc \in {"agg_read", "agg_save", "agg_action", "run_stats"}

\* history: the rows an insert added while some run was past its scan
landedAfter(store) ==
  IF \E p \in InitProcs \cup {TickProc} : pastScan(p)
  THEN landed \cup (store \ smtp_failures)
  ELSE landed

\* processDeliveryFailureHandler for a payload of one smtp.delivery.failure event,
\* taken as one step (the aggregator only sees the committed row)
IngestEvent(id) ==
  /\ smtp_failures' = InsertSMTPFailure(smtp_failures, buildFailure(id, now))
  /\ landed' = landedAfter(smtp_failures')
  /\ UNCHANGED <<now, metrics, ip_actions, dnsbl_dispatched, status_log,
                 running, mu, ticker, stats, agg, calls>>
  /\ UNCHANGED <<ingVars, provVars, fnVars>>

Ingest == \E id \in EventIds : IngestEvent(id)

\* ------------------------------------------------------ Start / Stop / ticker
\* AggregationService.Start: under mu; spawns the immediate run and the ticker goroutine
Start ==
  /\ mu = "free"
  /\ calls.starts < StartCalls
  /\ calls' = [calls EXCEPT !.starts = @ + 1]
  /\ IF running
     THEN UNCHANGED <<running, ticker, agg>>
     ELSE /\ running' = TRUE
          /\ ticker' = [active |-> TRUE, c |-> 0]
          /\ agg' = [agg EXCEPT
                       ![<<"init", calls.starts + 1>>] = [IdleLocals EXCEPT !.pc = "run_start"],
                       ![TickProc] = [IdleLocals EXCEPT !.pc = "select"]]
  /\ UNCHANGED <<now, smtp_failures, landed, metrics, ip_actions, dnsbl_dispatched, status_log,
                 mu, stats>>
  /\ UNCHANGED <<ingVars, provVars, fnVars>>

\* the runtime delivers a tick into ticker.C (capacity 1; a tick that finds it full is dropped)
TickerFire ==
  /\ ticker.active
  /\ ticker.c = 0
  /\ calls.ticks < MaxTicks
  /\ ticker' = [ticker EXCEPT !.c = 1]
  /\ calls' = [calls EXCEPT !.ticks = @ + 1]
  /\ UNCHANGED <<now, smtp_failures, landed, metrics, ip_actions, dnsbl_dispatched, status_log,
                 running, mu, stats, agg>>
  /\ UNCHANGED <<ingVars, provVars, fnVars>>

\* case <-s.ticker.C: s.runAggregation()
SelectTick ==
  /\ agg[TickProc].pc = "select"
  /\ ticker.c = 1
  /\ ticker' = [ticker EXCEPT !.c = 0]
  /\ agg' = [agg EXCEPT ![TickProc] = [IdleLocals EXCEPT !.pc = "run_start"]]
  /\ UNCHANGED <<now, smtp_failures, landed, metrics, ip_actions, dnsbl_dispatched, status_log,
                 running, mu, stats, calls>>
  /\ UNCHANGED <<ingVars, provVars, fnVars>>

\* Stop up to the send on stopChan: takes mu, returns at once when not running,
\* else stops the ticker and blocks in s.stopChan <- true holding mu
StopBegin ==
  /\ mu = "free"
  /\ running
  /\ mu' = "Stop"
  /\ ticker' = [ticker EXCEPT !.active = FALSE]
  /\ UNCHANGED <<now, smtp_failures, landed, metrics, ip_actions, dnsbl_dispatched, status_log,
                 running, stats, agg, calls>>
  /\ UNCHANGED <<ingVars, provVars, fnVars>>

\* the rendezvous on the unbuffered stopChan: the ticker goroutine takes
\* case <-s.stopChan and returns; Stop sets running = false and releases mu
StopRendezvous ==
  /\ mu = "Stop"
  /\ agg[TickProc].pc = "select"
  /\ agg' = [agg EXCEPT ![TickProc] = IdleLocals]
  /\ running' = FALSE
  /\ mu' = "free"
  /\ UNCHANGED <<now, smtp_failures, landed, metrics, ip_actions, dnsbl_dispatched, status_log,
                 ticker, stats, calls>>
  /\ UNCHANGED <<ingVars, provVars, fnVars>>


\* ------------------------------------------------------------ runAggregation
since(t) == t - WindowUnits

\* the outcomes of one database call: it may fail while the fault budget lasts
DbOutcomes == IF calls.faults < MaxFaults THEN BOOLEAN ELSE {TRUE}
Faulted(ok) == IF ok THEN 0 ELSE 1

\* GetIPReputationMetrics(ip).Status, or "unknown" on any error (not found or database)
readOldStatus(row, dbOk) ==
  IF dbOk /\ row # NotFound THEN row.Status ELSE "unknown"

\* statusChanged without the test for the sentinel "unknown"
statusChanged_anyPrevious(oldStatus, status) == oldStatus # status

\* the test after the upsert that decides whether handleStatusChange runs
statusChanged(oldStatus, status) == oldStatus # status /\ oldStatus # "unknown"

\* the column rejection_ratio DECIMAL(5,4) with the value cut after four decimals
storedRatio_truncated(r) == <<(DecimalScale * r[1]) \div r[2], DecimalScale>>

\* the column rejection_ratio DECIMAL(5,4): the value is kept with four decimals,
\* rounded half up, as the pair <<n, 10000>>
storedRatio(r) == <<(2 * DecimalScale * r[1] + r[2]) \div (2 * r[2]), DecimalScale>>

\* the row aggregateIPMetrics upserts
metricsRow(health, status) ==
  [ Status |-> status, TotalSent |-> health.TotalSent,
    TotalRejected |-> health.TotalRejected,
    RejectionRatio |-> storedRatio(health.RejectionRatio),
    UniqueDomainsRejected |-> health.UniqueDomainsRejected,
    MajorProviders |-> health.MajorProviders,
    ReputationCodes |-> health.ReputationCodes ]

\* history of the stored status: a change of an existing row's status is logged
\* with its writer ("aggregation" or "manual")
logChange(ip, row, writer) ==
  IF metrics[ip] # NotFound /\ metrics[ip].Status # row.Status
  THEN status_log \cup {<<ip, metrics[ip].Status, row.Status, writer>>}
  ELSE status_log

\* the status_change row handleStatusChange inserts
statusChangeAction(ip, oldStatus, newStatus) ==
  [ ip |-> ip, action |-> "status_change", previous_status |-> oldStatus,
    new_status |-> newStatus, triggered_by |-> "automated_aggregation" ]

\* handleBlacklistedIP and handleQuarantinedIP call CheckDNSBLAsync; handleWarningIP does not
dispatchesDNSBL(newStatus) == newStatus \in {"blacklisted", "quarantine"}

\* afterAggregate with a run loop that stops at the first error
afterAggregate_abortOnError(p, l, ok) ==
  IF p = ReqProc
  THEN (IF ok THEN [IdleLocals EXCEPT !.pc = "q_read", !.ip = l.ip] ELSE IdleLocals)
  ELSE [IdleLocals EXCEPT
          !.pc = IF l.todo = {} \/ ~ok THEN "run_stats" ELSE "agg_read",
          !.todo = l.todo,
          !.found = l.found,
          !.success = IF ok THEN l.success + 1 ELSE l.success,
          !.errs = IF ok THEN l.errs ELSE l.errs + 1]

\* the locals of goroutine p once aggregateIPMetrics has returned (ok: it returned nil):
\* the run loop counts and goes on, AggregateIPOnDemand re-reads the row or fails
afterAggregate(p, l, ok) ==
  IF p = ReqProc
  THEN (IF ok THEN [IdleLocals EXCEPT !.pc = "q_read", !.ip = l.ip] ELSE IdleLocals)
  ELSE [IdleLocals EXCEPT
          !.pc = IF l.todo = {} THEN "run_stats" ELSE "agg_read",
          !.todo = l.todo,
          !.found = l.found,
          !.success = IF ok THEN l.success + 1 ELSE l.success,
          !.errs = IF ok THEN l.errs ELSE l.errs + 1]

\* since := now - window; ips := GetIPsNeedingAggregation(since)
RunStart(p) ==
  /\ p \in InitProcs \cup {TickProc}
  /\ agg[p].pc = "run_start"
  /\ \E dbOk \in DbOutcomes :
       /\ agg' = [agg EXCEPT ![p] =
            IF dbOk
            THEN LET ips == GetIPsNeedingAggregation(smtp_failures, since(now))
                 IN [@ EXCEPT !.todo = ips,
                              !.found = Cardinality(ips),
                              !.pc = IF ips = {} THEN "run_stats" ELSE "agg_read"]
            ELSE [@ EXCEPT !.pc = "run_geterr"]]
       /\ calls' = [calls EXCEPT !.faults = @ + Faulted(dbOk)]
  /\ UNCHANGED <<now, smtp_failures, landed, metrics, ip_actions, dnsbl_dispatched, status_log,
                 running, mu, ticker, stats>>
  /\ UNCHANGED <<ingVars, provVars, fnVars>>

\* where a goroutine goes when runAggregation returns
runReturn(p) == IF p = TickProc THEN [IdleLocals EXCEPT !.pc = "select"] ELSE IdleLocals

\* the early return of runAggregation: s.mu.Lock(); s.errors++; s.mu.Unlock()
RunGetErr(p) ==
  /\ agg[p].pc = "run_geterr"
  /\ mu = "free"
  /\ stats' = [stats EXCEPT !.errors = @ + 1]
  /\ agg' = [agg EXCEPT ![p] = runReturn(p)]
  /\ UNCHANGED <<now, smtp_failures, landed, metrics, ip_actions, dnsbl_dispatched, status_log,
                 running, mu, ticker, calls>>
  /\ UNCHANGED <<ingVars, provVars, fnVars>>

\* aggregateIPMetrics, first part: the previous status and the sent estimate.
\* A run takes the next ip of its list; the on-demand caller has its ip already.
AggRead(p) ==
  /\ agg[p].pc = "agg_read"
  /\ \E ip \in (IF p = ReqProc THEN {agg[p].ip} ELSE agg[p].todo) :
     \E readOk \in DbOutcomes :
     \E estOk \in (IF readOk THEN DbOutcomes ELSE {TRUE}) :
       /\ agg' = [agg EXCEPT ![p] =
            [@ EXCEPT !.pc = "agg_save",
                      !.ip = ip,
                      !.todo = @ \ {ip},
                      !.oldStatus = readOldStatus(metrics[ip], readOk),
                      !.firstObs = (metrics[ip] = NotFound),
                      !.totalSent =
                         IF estOk
                         THEN estimateTotalSent(
                                Cardinality(GetSMTPFailuresByIP(smtp_failures, ip, since(now))),
                                DefaultReputationConfig)
                         ELSE EstimateOnError]]
       /\ calls' = [calls EXCEPT !.faults = @ + Faulted(readOk) + Faulted(estOk)]
  /\ UNCHANGED <<now, smtp_failures, landed, metrics, ip_actions, dnsbl_dispatched, status_log,
                 running, mu, ticker, stats>>
  /\ UNCHANGED <<ingVars, provVars, fnVars>>

\* aggregateIPMetrics, second part: CalculateIPHealthCheck, DetermineIPStatus and
\* UpsertIPReputationMetrics; an error of the query or of the upsert returns the error
AggSave(p) ==
  /\ agg[p].pc = "agg_save"
  /\ LET l      == agg[p]
         health == CalculateIPHealthCheck(
                     GetSMTPFailuresByIP(smtp_failures, l.ip, since(now)), l.totalSent)
         status == DetermineIPStatus(health, DefaultReputationConfig)
         row    == metricsRow(health, status)
     IN \E dbOk \in DbOutcomes :
          /\ calls' = [calls EXCEPT !.faults = @ + Faulted(dbOk)]
          /\ IF dbOk
             THEN /\ metrics' = [metrics EXCEPT ![l.ip] = row]
                  /\ status_log' = logChange(l.ip, row, "aggregation")
                  /\ agg' = [agg EXCEPT ![p] =
                       IF statusChanged(l.oldStatus, status)
                       THEN [l EXCEPT !.pc = "agg_action", !.status = status]
                       ELSE afterAggregate(p, l, TRUE)]
             ELSE /\ agg' = [agg EXCEPT ![p] = afterAggregate(p, l, FALSE)]
                  /\ UNCHANGED <<metrics, status_log>>
  /\ UNCHANGED <<now, smtp_failures, landed, ip_actions, dnsbl_dispatched,
                 running, mu, ticker, stats>>
  /\ UNCHANGED <<ingVars, provVars, fnVars>>

\* handleStatusChange: InsertIPAction, then the per-status handler; an insert error is
\* returned to aggregateIPMetrics, which logs it and still returns nil
AggAction(p) ==
  /\ agg[p].pc = "agg_action"
  /\ LET l == agg[p]
     IN /\ \E dbOk \in DbOutcomes :
             /\ calls' = [calls EXCEPT !.faults = @ + Faulted(dbOk)]
             /\ IF dbOk
                THEN /\ ip_actions' = Append(ip_actions,
                                        statusChangeAction(l.ip, l.oldStatus, l.status))
                     /\ dnsbl_dispatched' =
                          IF dispatchesDNSBL(l.status)
                          THEN dnsbl_dispatched \cup {l.ip}
                          ELSE dnsbl_dispatched
                ELSE UNCHANGED <<ip_actions, dnsbl_dispatched>>
        /\ agg' = [agg EXCEPT ![p] = afterAggregate(p, l, TRUE)]
  /\ UNCHANGED <<now, smtp_failures, landed, metrics, status_log,
                 running, mu, ticker, stats>>
  /\ UNCHANGED <<ingVars, provVars, fnVars>>

\* the end of runAggregation: the statistics, under mu
RunStats(p) ==
  /\ agg[p].pc = "run_stats"
  /\ mu = "free"
  /\ stats' = [ ipsProcessed |-> stats.ipsProcessed + agg[p].success,
                errors |-> stats.errors + agg[p].errs,
                lastRun |-> now ]
  /\ agg' = [agg EXCEPT ![p] = runReturn(p)]
  /\ UNCHANGED <<now, smtp_failures, landed, metrics, ip_actions, dnsbl_dispatched, status_log,
                 running, mu, ticker, calls>>
  /\ UNCHANGED <<ingVars, provVars, fnVars>>

\* ------------------------------------------------- POST /ips/{ip}/quarantine
\* quarantineIPHandler starts with AggregateIPOnDemand(ip, config)
QuarantineRequest(ip) ==
  /\ agg[ReqProc].pc = "idle"
  /\ calls.requests < MaxRequests
  /\ calls' = [calls EXCEPT !.requests = @ + 1]
  /\ agg' = [agg EXCEPT ![ReqProc] = [IdleLocals EXCEPT !.pc = "agg_read", !.ip = ip]]
  /\ UNCHANGED <<now, smtp_failures, landed, metrics, ip_actions, dnsbl_dispatched, status_log,
                 running, mu, ticker, stats>>
  /\ UNCHANGED <<ingVars, provVars, fnVars>>

\* AggregateIPOnDemand re-reads the row; the handler forces Status = "quarantine"
\* and upserts it; a failed read or upsert answers 500
QuarantineForce ==
  /\ agg[ReqProc].pc = "q_read"
  /\ LET ip == agg[ReqProc].ip
     IN \E dbOk \in DbOutcomes :
          /\ calls' = [calls EXCEPT !.faults = @ + Faulted(dbOk)]
          /\ IF dbOk /\ metrics[ip] # NotFound
             THEN LET row == [metrics[ip] EXCEPT !.Status = "quarantine"]
                  IN /\ metrics' = [metrics EXCEPT ![ip] = row]
                     /\ status_log' = logChange(ip, row, "manual")
                     /\ agg' = [agg EXCEPT ![ReqProc].pc = "q_action"]
             ELSE /\ agg' = [agg EXCEPT ![ReqProc] = IdleLocals]
                  /\ UNCHANGED <<metrics, status_log>>
  /\ UNCHANGED <<now, smtp_failures, landed, ip_actions, dnsbl_dispatched,
                 running, mu, ticker, stats>>
  /\ UNCHANGED <<ingVars, provVars, fnVars>>

\* the manual_quarantine row (its insert error is ignored) and go CheckDNSBL(ip, 5)
QuarantineAction ==
  /\ agg[ReqProc].pc = "q_action"
  /\ LET ip == agg[ReqProc].ip
     IN /\ \E dbOk \in DbOutcomes :
             /\ calls' = [calls EXCEPT !.faults = @ + Faulted(dbOk)]
             /\ ip_actions' =
                  IF dbOk
                  THEN Append(ip_actions,
                         [ ip |-> ip, action |-> "manual_quarantine", previous_status |-> "",
                           new_status |-> "quarantine", triggered_by |-> "manual" ])
                  ELSE ip_actions
        /\ dnsbl_dispatched' = dnsbl_dispatched \cup {ip}
  /\ agg' = [agg EXCEPT ![ReqProc] = IdleLocals]
  /\ UNCHANGED <<now, smtp_failures, landed, metrics, status_log,
                 running, mu, ticker, stats>>
  /\ UNCHANGED <<ingVars, provVars, fnVars>>

\* ======================================================================
\* The delivery-failure webhook (specification IngestSpec)
\* ======================================================================
\* the HTTP server runs every request in a goroutine of its own
WebhookProcs == {"hook1", "hook2"}

NoFailure == [event_id |-> 0]

\* the event types of a payload: the one the handler stores and another one
FailureType == "smtp.delivery.failure"
EventTypes == {FailureType, "smtp.delivery.success"}

\* the payloads that decode: up to MaxPayload events, each with its id and type
Payloads ==
  UNION {[1..n -> [id : EventIds, type : EventTypes]] : n \in 0..MaxPayload}

\* the loop without its type test: every event is handled
nextFailure_anyType(payload, from) == from

\* for _, event := range payload.Events { if event.Type != "smtp.delivery.failure"
\* { continue } ... }: the index of the next event the loop body handles, from
\* index `from` on; Len + 1 when the loop ends
nextFailure(payload, from) ==
  LET rest == {k \in from..Len(payload) : payload[k].type = FailureType}
  IN IF rest = {} THEN Len(payload) + 1
     ELSE CHOOSE k \in rest : \A m \in rest : k <= m

\* status: 0 while no response was written
IdleHook ==
  [ pc |-> "idle", payload |-> <<>>, i |-> 0, failure |-> NoFailure,
    processed |-> 0, failed |-> 0, total |-> 0, status |-> 0 ]

IngInit ==
  /\ hooks = [h \in WebhookProcs |-> IdleHook]
  /\ last_ingest = [by |-> "none", failure |-> NoFailure, was_present |-> FALSE,
                    unchanged |-> TRUE, err |-> FALSE, counted |-> "none"]
  /\ first_rows = {}

aggOnly == <<metrics, ip_actions, dnsbl_dispatched, status_log,
             running, mu, ticker, stats, agg>>

\* the clock, for the specifications without the aggregator
Tick ==
  /\ now < MaxTime
  /\ now' = now + 1
  /\ UNCHANGED <<smtp_failures, landed, calls, aggOnly, ingVars, provVars, fnVars>>

\* the position of handler h after the event at index i: at the next failure event
\* with its SMTPFailure built, or at the response (200, the counters in the body)
hookAdvance(l, payload, i, t) ==
  LET k == nextFailure(payload, i + 1)
  IN IF k > Len(payload)
     THEN [l EXCEPT !.pc = "idle", !.payload = payload, !.i = k,
                    !.total = Len(payload), !.status = StatusOK]
     ELSE [l EXCEPT !.pc = "insert", !.payload = payload, !.i = k,
                    !.failure = buildFailure(payload[k].id, t)]

\* the handler decodes the body: 400 when it does not decode; else it starts the
\* loop over the events with processedCount = failedCount = 0
HookReceive(h, payload, decodes) ==
  /\ hooks[h].pc = "idle"
  /\ calls.deliveries < MaxDeliveries
  /\ calls' = [calls EXCEPT !.deliveries = @ + 1]
  /\ hooks' = [hooks EXCEPT ![h] =
       IF decodes THEN hookAdvance(IdleHook, payload, 0, now)
       ELSE [IdleHook EXCEPT !.status = StatusBadRequest]]
  /\ UNCHANGED <<now, smtp_failures, landed, last_ingest, first_rows, aggOnly, provVars, fnVars>>

\* database.InsertSMTPFailure(failure) and the counting of its result, then the
\* rest of the loop up to the next insert or to the response
\* {"status": "success", processed, failed, total}
HookInsert(h) ==
  /\ hooks[h].pc = "insert"
  /\ LET l == hooks[h]
         f == l.failure
     IN \E dbOk \in DbOutcomes :
          /\ calls' = [calls EXCEPT !.faults = @ + Faulted(dbOk)]
          /\ smtp_failures' = IF dbOk THEN InsertSMTPFailure(smtp_failures, f)
                              ELSE smtp_failures
          /\ hooks' = [hooks EXCEPT ![h] =
               hookAdvance([l EXCEPT !.processed = IF dbOk THEN @ + 1 ELSE @,
                                     !.failed = IF dbOk THEN @ ELSE @ + 1],
                           l.payload, l.i, now)]
          /\ last_ingest' =
               [ by |-> h, failure |-> f,
                 was_present |-> \E r \in smtp_failures : r.event_id = f.event_id,
                 unchanged |-> smtp_failures' = smtp_failures,
                 err |-> ~dbOk,
                 counted |-> IF hooks'[h].processed > l.processed THEN "processed"
                             ELSE "failed" ]
          /\ landed' = landedAfter(smtp_failures')
          /\ first_rows' =
               IF dbOk /\ ~ \E r \in first_rows : r.event_id = f.event_id
               THEN first_rows \cup {f}
               ELSE first_rows
  /\ UNCHANGED <<now, aggOnly, provVars, fnVars>>

IngestNext ==
  \/ Tick
  \/ \E h \in WebhookProcs : \E payload \in Payloads : HookReceive(h, payload, TRUE)
  \/ \E h \in WebhookProcs : HookReceive(h, <<>>, FALSE)
  \/ \E h \in WebhookProcs : HookInsert(h)

\* ======================================================================
\* The IONOS provisioner and the cleanup (specification ProvSpec)
\* ======================================================================
\* an address is the sequence of its dot-separated parts
AddrV4 == <<"198", "51", "100", "7">>
AddrV6 == <<"2001:db8::7">>
\* the addresses the upstream hands out for new blocks
AddrPool == {AddrV4, AddrV6}

\* a DNSBL zone is the sequence of its labels
Blacklists ==
  { <<"zen", "spamhaus", "org">>, <<"b", "barracudacentral", "org">>,
    <<"bl", "spamcop", "net">>, <<"cbl", "abuseat", "org">>,
    <<"dyna", "spamrats", "com">>, <<"noptr", "spamrats", "com">>,
    <<"spam", "spamrats", "com">>, <<"ix", "dnsbl", "manitu", "net">>,
    <<"dnsbl", "sorbs", "net">>, <<"psbl", "surriel", "com">>,
    <<"ubl", "unsubscore", "com">>, <<"dnsbl", "dronebl", "org">> }

IgnoredBlacklists ==
  { <<"dnsbl-1", "uceprotect", "net">>, <<"dnsbl-2", "uceprotect", "net">>,
    <<"dnsbl-3", "uceprotect", "net">>, <<"sip", "invaluement", "com">>,
    <<"sip24", "invaluement", "com">> }

\* strings.Contains on label sequences
Contains(text, sub) ==
  \E k \in 0..(Len(text) - Len(sub)) : SubSeq(text, k + 1, k + Len(sub)) = sub

isIgnored(blacklist) == \E ignored \in IgnoredBlacklists : Contains(blacklist, ignored)

\* reverseIP of the provisioner's checker: an error unless the address has four parts
reverseIP(ip) ==
  IF Len(ip) # IPv4Parts
  THEN [err |-> TRUE, reversed |-> <<>>]
  ELSE [err |-> FALSE, reversed |-> [k \in 1..IPv4Parts |-> ip[IPv4Parts + 1 - k]]]

\* the DNS answers of one probe: the set of zones under which the query resolves
DnsAnswers == { {}, {<<"zen", "spamhaus", "org">>, <<"dnsbl", "dronebl", "org">>} }

\* DNSBLChecker.CheckIP: every lookup that resolves lists the address; a lookup
\* error or timeout counts as not listed
CheckIP(ip, resolving) ==
  IF reverseIP(ip).err
  THEN [err |-> TRUE, IsBlacklisted |-> FALSE, Blacklists |-> {}]
  ELSE LET found == {bl \in Blacklists : bl \in resolving /\ ~isIgnored(bl)}
       IN [err |-> FALSE, IsBlacklisted |-> found # {}, Blacklists |-> found]

\* what reserveSingleIP makes of the probe: an error is replaced by "not blacklisted"
vettingResult(probe) ==
  IF probe.err THEN [IsBlacklisted |-> FALSE, Blacklists |-> {}]
  ELSE [IsBlacklisted |-> probe.IsBlacklisted, Blacklists |-> probe.Blacklists]

\* block.Properties.Size == 11 || len(block.Properties.IPs) == 11, without the size test
isProtectedBlock_byCountOnly(b) == Len(b.ips) = ProtectedBlockSize

\* block.Properties.Size == 11 || len(block.Properties.IPs) == 11
isProtectedBlock(b) == b.size = ProtectedBlockSize \/ Len(b.ips) = ProtectedBlockSize

\* block.Properties.Size == 1 || len(block.Properties.IPs) == 1
isSingleBlock(b) == b.size = SingleBlockSize \/ Len(b.ips) = SingleBlockSize

\* the block ids of the reserved_ips rows with status in_use or reserved
inUseBlocks(rows) == {r.block_id : r \in {q \in rows : q.status \in {"in_use", "reserved"}}}

\* CheckQuota over the listed inventory
CheckQuota(items) ==
  [ TotalBlocks     |-> Cardinality(items),
    ProtectedBlocks |-> Cardinality({b \in items : isProtectedBlock(b)}),
    SingleIPBlocks  |-> Cardinality({b \in items : ~isProtectedBlock(b) /\ isSingleBlock(b)}),
    EstimatedLimit  |-> MaxQuota,
    Remaining       |-> MaxQuota - Cardinality(items) ]

\* the quota test of ReserveCleanIPs, never failing
quotaInsufficient_never(remaining, count) == FALSE

\* if quota.Remaining < count { return error }
quotaInsufficient(remaining, count) == remaining < count

\* maxAttempts with one attempt more per IP
maxAttemptsFor_plusOne(count) == count * (AttemptsPerIP + 1)

\* maxAttempts := count * 5
maxAttemptsFor(count) == count * AttemptsPerIP

\* the loop condition: attempt < maxAttempts && successCount < count
loopContinues(attempt, maxAttempts, successCount, count) ==
  attempt < maxAttempts /\ successCount < count

\* the provisioner workflows (each a POST /ips/reserve request)
Workflows == {"wf1"}

NoBlock == <<"none", 0>>
IdleWf ==
  [ pc |-> "idle", count |-> 0, remaining |-> 0, attempt |-> 0, maxAttempts |-> 0,
    successCount |-> 0,
    blacklistedCount |-> 0, failureCount |-> 0, reserved |-> {},
    block |-> NoBlock, ip |-> <<>>, reserve_calls |-> 0, cancelled |-> FALSE,
    result |-> "", answer |-> [status |-> 0] ]
\* target: the reserved_ips row of the DELETE /ips/reserved/{id} request that called
\* CleanupSingleIPBlocks (none when POST /ips/cleanup called it)
IdleCleanup ==
  [pc |-> "idle", todo |-> {}, inUse |-> {}, deletedCount |-> 0, result |-> "", target |-> {}]

\* where a CleanupSingleIPBlocks call returns to: HandleCleanupBlocks answers, while
\* HandleDeleteReservedIP goes on to database.DeleteReservedIP whatever the result
cleanupExit(c) == IF c.target = {} THEN "idle" ELSE "del_row"

\* blocks the account may hold before the service starts
ElevenIPs == [k \in 1..ProtectedBlockSize |-> <<"203", "0", "113", ToString(k)>>]
PreBlocks ==
  { [id |-> <<"pre", 1>>, size |-> 11, ips |-> ElevenIPs],
    [id |-> <<"pre", 2>>, size |-> 11, ips |-> <<<<"192", "0", "2", "1">>>>],
    [id |-> <<"pre", 3>>, size |-> 1,  ips |-> <<<<"192", "0", "2", "2">>>>],
    [id |-> <<"pre", 4>>, size |-> 2,  ips |-> <<<<"192", "0", "2", "3">>>>] }

\* the reserved_ips row of a block's first address
rowOf(b, status, uid) ==
  [ ip |-> b.ips[1], block_id |-> b.id, status |-> status, is_blacklisted |-> FALSE,
    uid |-> uid ]

ProvIdle ==
  /\ blocks = {}
  /\ reserved_ips = {}
  /\ attempts = {}
  /\ quota_snapshots = {}
  /\ wf = [w \in Workflows |-> IdleWf]
  /\ cleanup = IdleCleanup
  /\ vetting = {}
  /\ cleanup_deleted = {}

\* any inventory of at most MaxPreBlocks blocks, each referenced by a row of the
\* database with some status, or by none
ProvInit ==
  /\ \E inv \in {i \in SUBSET PreBlocks : Cardinality(i) <= MaxPreBlocks} :
     \E ref \in [inv -> {"none", "reserved", "in_use", "released"}] :
       /\ blocks = inv
       /\ reserved_ips = {rowOf(b, ref[b], <<"pre", 0>>) : b \in {c \in inv : ref[c] # "none"}}
  /\ attempts = {}
  /\ quota_snapshots = {}
  /\ wf = [w \in Workflows |-> IdleWf]
  /\ cleanup = IdleCleanup
  /\ vetting = {}
  /\ cleanup_deleted = {}

\* the outcomes of one upstream API call: it may fail while the fault budget lasts
UpOutcomes == IF calls.faults < MaxFaults THEN BOOLEAN ELSE {TRUE}

\* addresses the upstream can assign: those of no block it holds
FreeAddrs == {a \in AddrPool : \A b \in blocks : \A k \in DOMAIN b.ips : b.ips[k] # a}

\* the IP lists ReserveIPBlock may answer for the new block: none yet, or one address
FreshIPs == {<<>>} \cup {<<a>> : a \in FreeAddrs}

\* the IP lists GetIPBlock may answer five seconds later: one address, or still
\* none (counted with the faults)
LateIPs == (IF calls.faults < MaxFaults \/ FreeAddrs = {} THEN {<<>>} ELSE {})
           \cup {<<a>> : a \in FreeAddrs}

\* the id the upstream gives a new block: one that names no block anywhere (ids
\* are opaque, so the least unused number stands for any fresh id)
UsedBlockIds ==
  {b.id : b \in blocks} \cup {b.id : b \in cleanup.todo} \cup cleanup.inUse
    \cup {r.block_id : r \in reserved_ips} \cup {wf[w].block : w \in Workflows}
    \cup {d.id : d \in cleanup_deleted}
FreshBlockId ==
  <<"new", CHOOSE k \in 1..(Cardinality(UsedBlockIds) + 1) :
             /\ <<"new", k>> \notin UsedBlockIds
             /\ \A j \in 1..(k - 1) : <<"new", j>> \in UsedBlockIds>>

\* DELETE /ipblocks/{id}
DeleteIPBlock(items, id) == {b \in items : b.id # id}

\* the ip_reservation_attempts row of an attempt of workflow w (the table is kept
\* as the set of its distinct <<request, success, action_taken>> values)
attemptRow(w, l, success, action) ==
  [ wf |-> w, success |-> success, action_taken |-> action ]

\* the locals after an iteration that ended in `continue` (an error of reserveSingleIP)
failedIteration(l) ==
  [l EXCEPT !.pc = "loop", !.attempt = @ + 1, !.block = NoBlock, !.ip = <<>>,
            !.failureCount = @ + 1]

\* an upstream call carries the request context (http.NewRequestWithContext): once
\* the context is cancelled the call returns its error without reaching the upstream
ctxOutcomes(w) == IF wf[w].cancelled THEN {FALSE} ELSE UpOutcomes
ctxFault(w, ok) == IF wf[w].cancelled THEN 0 ELSE Faulted(ok)

\* HandleReserveIPs with the partial response written next to the error
handlerAnswer_partialOnError(l, result) ==
  [ status |-> IF result = "completed" THEN StatusCreated ELSE StatusInternalServerError,
    ReservedIPs |-> l.reserved, SuccessCount |-> l.successCount,
    BlacklistedCount |-> l.blacklistedCount, FailureCount |-> l.failureCount ]

\* what HandleReserveIPs writes: 201 and the response of ReserveCleanIPs, or, when
\* ReserveCleanIPs returned an error, http.Error(w, err.Error(), 500) only
handlerAnswer(l, result) ==
  IF result = "completed"
  THEN [ status |-> StatusCreated,
         ReservedIPs |-> l.reserved, SuccessCount |-> l.successCount,
         BlacklistedCount |-> l.blacklistedCount, FailureCount |-> l.failureCount ]
  ELSE [ status |-> StatusInternalServerError,
         ReservedIPs |-> {}, SuccessCount |-> 0, BlacklistedCount |-> 0, FailureCount |-> 0 ]

\* ReserveCleanIPs returns and the handler answers
returned(l, result) ==
  [l EXCEPT !.pc = "done", !.result = result, !.answer = handlerAnswer(l, result)]

provOthers == <<now, smtp_failures, landed, aggOnly, ingVars, fnVars>>

\* HandleReserveIPs: count must be in 1..50; ReserveCleanIPs starts
HandleReserveIPs(w, count) ==
  /\ wf[w].pc = "idle"
  /\ wf' = [wf EXCEPT ![w] = [IdleWf EXCEPT !.pc = "quota", !.count = count]]
  /\ UNCHANGED <<blocks, reserved_ips, attempts, quota_snapshots, cleanup,
                 vetting, cleanup_deleted, calls, provOthers>>

\* the client goes away: the request context is cancelled
CancelRequest(w) ==
  /\ wf[w].pc \notin {"idle", "done"}
  /\ ~wf[w].cancelled
  /\ wf' = [wf EXCEPT ![w].cancelled = TRUE]
  /\ UNCHANGED <<blocks, reserved_ips, attempts, quota_snapshots, cleanup,
                 vetting, cleanup_deleted, calls, provOthers>>

\* quota, err := s.CheckQuota(ctx) and the test quota.Remaining < count
WfCheckQuota(w) ==
  /\ wf[w].pc = "quota"
  /\ \E upOk \in ctxOutcomes(w) :
     \E dbOk \in (IF upOk THEN DbOutcomes ELSE {TRUE}) :
       LET quota == CheckQuota(blocks)
       IN /\ calls' = [calls EXCEPT !.faults = @ + ctxFault(w, upOk) + Faulted(dbOk)]
          /\ quota_snapshots' = IF upOk /\ dbOk THEN quota_snapshots \cup {quota}
                                ELSE quota_snapshots
          /\ wf' = [wf EXCEPT ![w] =
               IF ~upOk THEN returned(@, "quota_check_failed")
               ELSE IF quotaInsufficient(quota.Remaining, @.count)
               THEN returned([@ EXCEPT !.remaining = quota.Remaining], "insufficient_quota")
               ELSE [@ EXCEPT !.pc = "loop", !.remaining = quota.Remaining,
                              !.maxAttempts = maxAttemptsFor(wf[w].count)]]
  /\ UNCHANGED <<blocks, reserved_ips, attempts, cleanup,
                 vetting, cleanup_deleted, provOthers>>

\* the head of the for loop: its condition, then the select on ctx.Done()
WfLoop(w) ==
  /\ wf[w].pc = "loop"
  /\ wf' = [wf EXCEPT ![w] =
       IF ~loopContinues(@.attempt, @.maxAttempts, @.successCount, @.count)
       THEN returned(@, "completed")
       ELSE IF @.cancelled
       THEN returned(@, "cancelled")
       ELSE [@ EXCEPT !.pc = "reserve"]]
  /\ UNCHANGED <<blocks, reserved_ips, attempts, quota_snapshots, cleanup,
                 vetting, cleanup_deleted, calls, provOthers>>

\* reserveSingleIP up to the answer of s.client.ReserveIPBlock(ctx, location, 1, name)
WfReserve(w) ==
  /\ wf[w].pc = "reserve"
  /\ LET l == [wf[w] EXCEPT !.reserve_calls = IF wf[w].cancelled THEN @ ELSE @ + 1]
     IN \E upOk \in ctxOutcomes(w) :
          IF upOk
          THEN \E ips \in FreshIPs :
                 LET b == [id |-> FreshBlockId, size |-> SingleBlockSize, ips |-> ips]
                 IN /\ blocks' = blocks \cup {b}
                    /\ wf' = [wf EXCEPT ![w] =
                         [l EXCEPT !.block = b.id,
                                   !.ip = IF ips = <<>> THEN <<>> ELSE ips[1],
                                   !.pc = IF ips = <<>> THEN "getblock" ELSE "vet"]]
                    /\ UNCHANGED <<attempts, calls>>
          ELSE /\ calls' = [calls EXCEPT !.faults = @ + ctxFault(w, FALSE)]
               /\ attempts' = attempts \cup {attemptRow(w, l, FALSE, "")}
               /\ wf' = [wf EXCEPT ![w] = failedIteration(l)]
               /\ UNCHANGED blocks
  /\ UNCHANGED <<reserved_ips, quota_snapshots, cleanup, vetting, cleanup_deleted, provOthers>>

\* the block came back without addresses: time.Sleep(5s), then s.client.GetIPBlock;
\* an error (the block may be gone), or still no address, ends the attempt with an error
WfGetBlock(w) ==
  /\ wf[w].pc = "getblock"
  /\ LET l    == wf[w]
         held == \E b \in blocks : b.id = l.block
     IN \E upOk \in (IF held THEN ctxOutcomes(w) ELSE {FALSE}) :
        \E ips \in (IF upOk THEN LateIPs ELSE {<<>>}) :
          /\ calls' = [calls EXCEPT
                         !.faults = @ + (IF held /\ ~l.cancelled /\ ips = <<>> /\ FreeAddrs # {}
                                         THEN 1 ELSE 0)]
          /\ blocks' = {IF b.id = l.block THEN [b EXCEPT !.ips = ips] ELSE b : b \in blocks}
          /\ IF ips = <<>>
             THEN /\ attempts' = attempts \cup {attemptRow(w, l, FALSE, "")}
                  /\ wf' = [wf EXCEPT ![w] = failedIteration(l)]
             ELSE /\ attempts' = attempts
                  /\ wf' = [wf EXCEPT ![w] = [l EXCEPT !.ip = ips[1], !.pc = "vet"]]
  /\ UNCHANGED <<reserved_ips, quota_snapshots, cleanup, vetting,
                 cleanup_deleted, provOthers>>

\* the rest of reserveSingleIP: the probe (with a cancelled context every lookup
\* fails, so nothing is found), then either DeleteIPBlock (its error is
\* only logged) and the "deleted" attempt, or CreateReservedIP and the "kept" attempt
WfVet(w) ==
  /\ wf[w].pc = "vet"
  /\ LET l == wf[w]
     IN \E resolving \in (IF l.cancelled THEN {{}} ELSE DnsAnswers) :
        LET probe   == CheckIP(l.ip, resolving)
            result  == vettingResult(probe)
            outcome == IF probe.err THEN "error"
                       ELSE IF probe.IsBlacklisted THEN "listed" ELSE "not_listed"
        IN IF result.IsBlacklisted
           THEN \E upOk \in UpOutcomes :
                  /\ calls' = [calls EXCEPT !.faults = @ + Faulted(upOk)]
                  /\ blocks' = IF upOk THEN DeleteIPBlock(blocks, l.block) ELSE blocks
                  /\ attempts' = attempts \cup {attemptRow(w, l, FALSE, "deleted")}
                  /\ wf' = [wf EXCEPT ![w] = [l EXCEPT !.pc = "sleep",
                                                       !.blacklistedCount = @ + 1]]
                  /\ UNCHANGED <<reserved_ips, vetting>>
           ELSE \E dbOk \in DbOutcomes :
                  LET stored == dbOk /\ \A r \in reserved_ips : r.ip # l.ip
                  IN /\ calls' = [calls EXCEPT !.faults = @ + Faulted(dbOk)]
                     /\ reserved_ips' =
                          IF stored
                          THEN reserved_ips \cup
                                 {[ ip |-> l.ip, block_id |-> l.block,
                                    status |-> "reserved", is_blacklisted |-> FALSE,
                                    uid |-> <<w, 1>> ]}
                          ELSE reserved_ips
                     /\ vetting' =
                          IF stored
                          THEN vetting \cup {[ip |-> l.ip, outcome |-> outcome]}
                          ELSE vetting
                     /\ attempts' =
                          IF stored THEN attempts \cup {attemptRow(w, l, TRUE, "kept")}
                          ELSE attempts \cup {attemptRow(w, l, FALSE, "kept_but_not_stored")}
                     /\ wf' = [wf EXCEPT ![w] =
                          IF stored
                          THEN [l EXCEPT !.pc = "sleep", !.successCount = @ + 1,
                                         !.reserved = @ \cup {l.ip}]
                          ELSE failedIteration(l)]
                     /\ UNCHANGED blocks
  /\ UNCHANGED <<quota_snapshots, cleanup, cleanup_deleted, provOthers>>

\* time.Sleep(1 * time.Second), then attempt++
WfSleep(w) ==
  /\ wf[w].pc = "sleep"
  /\ wf' = [wf EXCEPT ![w] = [@ EXCEPT !.pc = "loop", !.attempt = @ + 1,
                                       !.block = NoBlock, !.ip = <<>>]]
  /\ UNCHANGED <<blocks, reserved_ips, attempts, quota_snapshots, cleanup,
                 vetting, cleanup_deleted, calls, provOthers>>

\* the steps of a workflow once its request is in
WfStep(w) ==
  WfCheckQuota(w) \/ WfLoop(w) \/ WfReserve(w) \/ WfGetBlock(w) \/ WfVet(w) \/ WfSleep(w)

\* HandleCleanupBlocks: POST /ips/cleanup calls CleanupSingleIPBlocks
HandleCleanupBlocks ==
  /\ cleanup.pc = "idle"
  /\ calls.cleanups < MaxCleanups
  /\ calls' = [calls EXCEPT !.cleanups = @ + 1]
  /\ cleanup' = [IdleCleanup EXCEPT !.pc = "list"]
  /\ UNCHANGED <<blocks, reserved_ips, attempts, quota_snapshots, wf,
                 vetting, cleanup_deleted, provOthers>>

\* blocks, err := s.client.ListIPBlocks(ctx)
CleanupList ==
  /\ cleanup.pc = "list"
  /\ \E upOk \in UpOutcomes :
       /\ calls' = [calls EXCEPT !.faults = @ + Faulted(upOk)]
       /\ cleanup' = IF upOk THEN [cleanup EXCEPT !.pc = "listdb", !.todo = blocks]
                     ELSE [cleanup EXCEPT !.pc = cleanupExit(cleanup),
                                          !.result = "list_failed"]
  /\ UNCHANGED <<blocks, reserved_ips, attempts, quota_snapshots, wf,
                 vetting, cleanup_deleted, provOthers>>

\* reservedIPs, err := database.ListReservedIPs(nil, nil, nil) and the inUseBlocks map
CleanupListReserved ==
  /\ cleanup.pc = "listdb"
  /\ \E dbOk \in DbOutcomes :
       /\ calls' = [calls EXCEPT !.faults = @ + Faulted(dbOk)]
       /\ cleanup' = IF dbOk
                     THEN [cleanup EXCEPT !.pc = "scan", !.inUse = inUseBlocks(reserved_ips)]
                     ELSE [cleanup EXCEPT !.pc = cleanupExit(cleanup), !.todo = {},
                                          !.result = "list_failed"]
  /\ UNCHANGED <<blocks, reserved_ips, attempts, quota_snapshots, wf,
                 vetting, cleanup_deleted, provOthers>>

\* one iteration of the loop over blocks.Items; a failed DeleteIPBlock (the block
\* may be gone already) is logged and the loop goes on
CleanupStep ==
  /\ cleanup.pc = "scan"
  /\ \E b \in cleanup.todo :
       LET rest == [cleanup EXCEPT !.todo = @ \ {b}]
           held == \E c \in blocks : c.id = b.id
       IN IF isProtectedBlock(b) \/ b.id \in cleanup.inUse \/ ~isSingleBlock(b)
          THEN /\ cleanup' = rest
               /\ UNCHANGED <<blocks, cleanup_deleted, calls>>
          ELSE \E upOk \in (IF held THEN UpOutcomes ELSE {FALSE}) :
                 /\ calls' = [calls EXCEPT !.faults = @ + (IF held THEN Faulted(upOk) ELSE 0)]
                 /\ blocks' = IF upOk THEN DeleteIPBlock(blocks, b.id) ELSE blocks
                 /\ cleanup_deleted' =
                      IF upOk
                      THEN cleanup_deleted \cup
                             {[ id |-> b.id, size |-> b.size, nips |-> Len(b.ips),
                                referenced |-> b.id \in inUseBlocks(reserved_ips) ]}
                      ELSE cleanup_deleted
                 /\ cleanup' = IF upOk THEN [rest EXCEPT !.deletedCount = @ + 1] ELSE rest
  /\ UNCHANGED <<reserved_ips, attempts, quota_snapshots, wf, vetting, provOthers>>

\* the loop is over: return deletedCount, nil
CleanupReturn ==
  /\ cleanup.pc = "scan"
  /\ cleanup.todo = {}
  /\ cleanup' = [cleanup EXCEPT !.pc = cleanupExit(cleanup), !.inUse = {},
                                !.result = "completed"]
  /\ UNCHANGED <<blocks, reserved_ips, attempts, quota_snapshots, wf,
                 vetting, cleanup_deleted, calls, provOthers>>

\* ----------------------------------------------------------------------
\* DELETE /api/v1/ips/reserved/{id} (specification DeleteSpec)
\* ----------------------------------------------------------------------
\* the ids a request may name: those of the stored rows, and one of no row
NoSuchRow == [ip |-> <<>>, block_id |-> NoBlock, status |-> "", is_blacklisted |-> FALSE,
              uid |-> <<"none", 0>>]
RequestedRows == reserved_ips \cup {NoSuchRow}

\* HandleDeleteReservedIP up to its call of CleanupSingleIPBlocks:
\* GetReservedIPByID (an error answers 404), then, the row naming a block, the cleanup
HandleDeleteReservedIP ==
  /\ cleanup.pc = "idle"
  /\ calls.cleanups < MaxCleanups
  /\ \E r \in RequestedRows : \E dbOk \in DbOutcomes :
       IF r \notin reserved_ips \/ ~dbOk
       THEN /\ calls' = [calls EXCEPT !.faults = @ + Faulted(dbOk)]
            /\ cleanup' = [IdleCleanup EXCEPT !.result = "not_found"]
       ELSE /\ calls' = [calls EXCEPT !.cleanups = @ + 1]
            /\ cleanup' = [IdleCleanup EXCEPT
                             !.pc = IF r.block_id # NoBlock THEN "list" ELSE "del_row",
                             !.target = {r}]
  /\ UNCHANGED <<blocks, reserved_ips, attempts, quota_snapshots, wf,
                 vetting, cleanup_deleted, provOthers>>

\* database.DeleteReservedIP(id) and the answer: 204, or 500 on an error (a row
\* that is gone is an error too)
DeleteReservedIP ==
  /\ cleanup.pc = "del_row"
  /\ \E dbOk \in DbOutcomes :
       LET deleted == dbOk /\ cleanup.target \subseteq reserved_ips
       IN /\ calls' = [calls EXCEPT !.faults = @ + Faulted(dbOk)]
          /\ reserved_ips' = IF deleted THEN reserved_ips \ cleanup.target ELSE reserved_ips
          /\ cleanup' = [cleanup EXCEPT !.pc = "idle", !.target = {},
                           !.result = IF deleted THEN "no_content" ELSE "delete_failed"]
  /\ UNCHANGED <<blocks, attempts, quota_snapshots, wf,
                 vetting, cleanup_deleted, provOthers>>

DeleteNext ==
  \/ HandleDeleteReservedIP
  \/ CleanupList
  \/ CleanupListReserved
  \/ CleanupStep
  \/ CleanupReturn
  \/ DeleteReservedIP

ProvNext ==
  \/ \E w \in Workflows : \E count \in 1..MaxCount : HandleReserveIPs(w, count)
  \/ \E w \in Workflows : CancelRequest(w)
  \/ \E w \in Workflows : WfCheckQuota(w)
  \/ \E w \in Workflows : WfLoop(w)
  \/ \E w \in Workflows : WfReserve(w)
  \/ \E w \in Workflows : WfGetBlock(w)
  \/ \E w \in Workflows : WfVet(w)
  \/ \E w \in Workflows : WfSleep(w)
  \/ HandleCleanupBlocks
  \/ CleanupList
  \/ CleanupListReserved
  \/ CleanupStep
  \/ CleanupReturn

\* ======================================================================
\* The recipient domain of a stored failure (specification DomainSpec)
\* ======================================================================
\* One smtp.delivery.failure event with any recipient address: the handler builds
\* the row with ExtractDomain(event.Data.Recipient) and inserts it.

\* the pieces of text a recipient address is made of; two of them hold capitals
RecipientPieces == {"local", "@", "Do", "main.", "TLD"}

\* the recipient addresses of the model: up to MaxPieces pieces
Recipients == UNION {[1..n -> RecipientPieces] : n \in 1..MaxPieces}

\* strings.ToLower of a piece
ToLower(piece) ==
  CASE piece = "Do" -> "do"
    [] piece = "TLD" -> "tld"
    [] OTHER -> piece

\* the pieces after the last "@" of an address (all of them when there is none)
afterLastAt(email) ==
  LET ats == {i \in DOMAIN email : email[i] = "@"}
  IN IF ats = {} THEN email
     ELSE SubSeq(email, (CHOOSE i \in ats : \A j \in ats : j <= i) + 1, Len(email))

NoExtract == [recipient |-> <<>>, stored |-> FALSE, recipient_email |-> "", recipient_domain |-> ""]

\* domain := database.ExtractDomain(event.Data.Recipient); the row carries
\* RecipientEmail and RecipientDomain: domain, and is inserted
DomainStore ==
  /\ ~extracted.stored
  /\ extracted' = [extracted EXCEPT !.stored = TRUE,
                                    !.recipient_email = Concat(extracted.recipient),
                                    !.recipient_domain = ExtractDomain(extracted.recipient)]
  /\ UNCHANGED <<dnsbl_probe, batch, classifier, suite, aggVars, ingVars, provVars>>

DomainNext == DomainStore

\* ======================================================================
\* The classifier over one window (specification ClassifySpec)
\* ======================================================================
\* One IP and its window: failures arrive, the sent count is given by the caller
\* or estimated from the failures seen so far, CalculateIPHealthCheck and
\* DetermineIPStatus are applied to the window, and the result is upserted.

\* the recipient domains and the enhanced codes of the failures of the window
WindowDomains == {"gmail.com", "outlook.com", "example.com"}
WindowCodes == {"5.7.1", "5.1.1"}

\* the enhanced codes of the four tiers of hasReputationRelatedCodes
ReputationTierCodes == primaryCodes \cup authCodes \cup infraCodes \cup policyCodes

\* the sent counts a caller passes: a negative one, none, one under the minimum volume, the minimum
SentInputs == {0 - 1, 0, MinVolumeForAssessment - 1, MinVolumeForAssessment}

windowFailure(id, domain, code) ==
  [ event_id |-> id, sending_ip |-> "203.0.113.10", recipient_domain |-> domain,
    enhanced_code |-> code, timestamp |-> 0 ]

\* the snapshot and the status of a window
classify(failures, totalSent) ==
  LET health == CalculateIPHealthCheck(failures, totalSent)
  IN [ health |-> health, status |-> DetermineIPStatus(health, DefaultReputationConfig) ]

NoClassifier ==
  [ failures |-> {}, totalSent |-> 0, estimated |-> FALSE, result |-> classify({}, 0),
    stored |-> NotFound, last |-> "none" ]

\* a failure is stored in the window; the snapshot is taken again with the same sent count
ClassifyAddFailure(domain, code) ==
  /\ Cardinality(classifier.failures) < MaxWindow
  /\ LET fs == classifier.failures
              \cup {windowFailure(Cardinality(classifier.failures) + 1, domain, code)}
     IN classifier' = [classifier EXCEPT !.failures = fs,
                                         !.result = classify(fs, classifier.totalSent),
                                         !.last = code]
  /\ UNCHANGED <<dnsbl_probe, batch, extracted, suite, aggVars, ingVars, provVars>>

\* aggregateIPMetrics: totalSent := estimateTotalSent(ip, windowStart), read before
\* CalculateIPHealthCheck reads the window; 100 when the query of the estimate fails
ClassifyEstimate(estOk) ==
  /\ LET totalSent == IF estOk
                      THEN estimateTotalSent(Cardinality(classifier.failures),
                                             DefaultReputationConfig)
                      ELSE EstimateOnError
     IN /\ ~classifier.estimated \/ totalSent # classifier.totalSent
        /\ classifier' = [classifier EXCEPT !.totalSent = totalSent,
                                            !.estimated = TRUE,
                                            !.result = classify(classifier.failures, totalSent),
                                            !.last = "estimate"]
  /\ UNCHANGED <<dnsbl_probe, batch, extracted, suite, aggVars, ingVars, provVars>>

\* aggregateIPMetrics: UpsertIPReputationMetrics of the snapshot and its status; the
\* sent count of a stored state is always an estimate
ClassifyStore ==
  /\ classifier.estimated
  /\ LET row == metricsRow(classifier.result.health, classifier.result.status)
     IN /\ row # classifier.stored
        /\ classifier' = [classifier EXCEPT !.stored = row, !.last = "store"]
  /\ UNCHANGED <<dnsbl_probe, batch, extracted, suite, aggVars, ingVars, provVars>>

ClassifyNext ==
  \/ \E domain \in WindowDomains : \E code \in WindowCodes : ClassifyAddFailure(domain, code)
  \/ \E estOk \in BOOLEAN : ClassifyEstimate(estOk)
  \/ ClassifyStore

\* ----------------------------------------------------------------------
\* estimateTotalSent under any configuration (specification EstimateSpec)
\* ----------------------------------------------------------------------
\* the min_volume_for_assessment values of the configurations: none, the default,
\* the value estimateTotalSent returns on an error, and values above it
ConfiguredMinVolumes ==
  {0, MinVolumeForAssessment, EstimateOnError, EstimateOnError + 1, 2 * EstimateOnError}

\* the configuration with another minimum volume
configWithMinVolume(v) == [DefaultReputationConfig EXCEPT !.MinVolumeForAssessment = v]

\* estimateTotalSent of a service with this configuration: EstimateOnError when
\* GetSMTPFailuresByIP fails, the clamped estimate of the failures it returned otherwise
estimateTotalSentOf(failureCount, queryOk, config) ==
  IF ~queryOk THEN EstimateOnError ELSE estimateTotalSent(failureCount, config)

\* totalSent := s.estimateTotalSent(ip, windowStart); classifier holds the call
EstimateCall ==
  /\ classifier.last = "estimate_call"
  /\ classifier' = [classifier EXCEPT
                      !.totalSent = estimateTotalSentOf(classifier.failureCount,
                                                        classifier.queryOk,
                                                        classifier.config),
                      !.last = "estimate_return"]
  /\ UNCHANGED <<dnsbl_probe, batch, extracted, suite, aggVars, ingVars, provVars>>

EstimateNext == EstimateCall

\* ----------------------------------------------------------------------
\* DetermineIPStatus on health snapshots given directly (specification CascadeSpec)
\* ----------------------------------------------------------------------
\* the sent counts of a snapshot: one under the minimum volume, a large one
SnapshotSent == {MinVolumeForAssessment - 1, 20 * MinVolumeForAssessment}

\* the rejected counts of a snapshot: with 20 * MinVolumeForAssessment sent they are
\* under, at and above the thresholds 2%, 3% and 5% of the configuration
SnapshotRejected == {0, 1, 11, 19, 20, 30, 31, 50, 51}

\* the major providers of a snapshot
SnapshotProviders == { {}, {"gmail.com"}, {"gmail.com", "outlook.com"} }

\* the reason counts of a snapshot: none, a primary code under and at its
\* threshold and at the threshold of the repeated-5.7.1 test, a policy code at its
\* threshold, a code of no tier
SnapshotCodes ==
  { <<>>, [c \in {"5.7.1"} |-> 1], [c \in {"5.7.1"} |-> 2], [c \in {"5.7.1"} |-> 5],
    [c \in {"4.7.0"} |-> 5], [c \in {"5.1.1"} |-> 5] }

\* the sum of the counts of a reason-count map
RECURSIVE CodeTotal(_)
CodeTotal(codes) ==
  IF DOMAIN codes = {} THEN 0
  ELSE LET c == CHOOSE k \in DOMAIN codes : TRUE
       IN codes[c] + CodeTotal([k \in DOMAIN codes \ {c} |-> codes[k]])

\* the snapshots CalculateIPHealthCheck can return for these counts
Snapshots ==
  { m \in [ TotalSent : SnapshotSent, TotalRejected : SnapshotRejected,
            UniqueDomainsRejected : 0..3, MajorProviders : SnapshotProviders,
            ReputationCodes : SnapshotCodes, ThrottleCount : {0, 10, 11} ] :
      /\ m.UniqueDomainsRejected <= m.TotalRejected
      /\ (m.TotalRejected > 0 => m.UniqueDomainsRejected > 0)
      /\ Cardinality(m.MajorProviders) <= m.UniqueDomainsRejected
      /\ CodeTotal(m.ReputationCodes) <= m.TotalRejected
      /\ m.ThrottleCount <= m.TotalRejected }

\* the snapshot with its ratio, as CalculateIPHealthCheck computes it
withRatio(m) ==
  [ TotalSent |-> m.TotalSent, TotalRejected |-> m.TotalRejected,
    RejectionRatio |-> rejectionRatio(m.TotalRejected, m.TotalSent),
    UniqueDomainsRejected |-> m.UniqueDomainsRejected,
    MajorProviders |-> m.MajorProviders, ReputationCodes |-> m.ReputationCodes,
    ThrottleCount |-> m.ThrottleCount ]

\* status := DetermineIPStatus(*health, s.config)
CascadeDetermine ==
  /\ classifier.last = "snapshot"
  /\ classifier' = [classifier EXCEPT
                      !.result.status = DetermineIPStatus(classifier.result.health,
                                                          DefaultReputationConfig),
                      !.last = "determine"]
  /\ UNCHANGED <<dnsbl_probe, batch, extracted, suite, aggVars, ingVars, provVars>>

CascadeNext == CascadeDetermine

\* ======================================================================
\* The test suite of the reputation engine (specification SuiteSpec)
\* ======================================================================
\* getTestCases: the fixed catalogue
getTestCases ==
  <<
    [ ID |-> "test-1", IP |-> "203.0.113.10", TotalSent |-> 500,
      Failures |-> <<
                   [Code |-> "5.1.1", Domain |-> "unknown-domain.com", Count |-> 1],
                   [Code |-> "4.2.2", Domain |-> "example.com", Count |-> 1] >>,
      ExpectedStatus |-> "healthy" ],
    [ ID |-> "test-2", IP |-> "203.0.113.11", TotalSent |-> 300,
      Failures |-> <<
                   [Code |-> "5.7.1", Domain |-> "gmail.com", Count |-> 3],
                   [Code |-> "5.7.1", Domain |-> "outlook.com", Count |-> 2],
                   [Code |-> "5.1.1", Domain |-> "various.com", Count |-> 3] >>,
      ExpectedStatus |-> "warning" ],
    [ ID |-> "test-3", IP |-> "203.0.113.12", TotalSent |-> 400,
      Failures |-> <<
                   [Code |-> "5.7.1", Domain |-> "gmail.com", Count |-> 7],
                   [Code |-> "5.7.1", Domain |-> "outlook.com", Count |-> 5],
                   [Code |-> "4.7.0", Domain |-> "yahoo.com", Count |-> 3] >>,
      ExpectedStatus |-> "quarantine" ],
    [ ID |-> "test-4", IP |-> "203.0.113.13", TotalSent |-> 500,
      Failures |-> <<
                   [Code |-> "5.7.1", Domain |-> "gmail.com", Count |-> 12],
                   [Code |-> "5.7.1", Domain |-> "outlook.com", Count |-> 10],
                   [Code |-> "5.7.1", Domain |-> "yahoo.com", Count |-> 8],
                   [Code |-> "5.7.1", Domain |-> "aol.com", Count |-> 5] >>,
      ExpectedStatus |-> "blacklisted" ],
    [ ID |-> "test-5", IP |-> "203.0.113.14", TotalSent |-> 20,
      Failures |-> <<
                   [Code |-> "5.7.1", Domain |-> "gmail.com", Count |-> 2],
                   [Code |-> "5.1.1", Domain |-> "example.com", Count |-> 1] >>,
      ExpectedStatus |-> "healthy" ],
    [ ID |-> "test-6", IP |-> "203.0.113.15", TotalSent |-> 600,
      Failures |-> <<
                   [Code |-> "4.7.0", Domain |-> "gmail.com", Count |-> 12],
                   [Code |-> "4.2.1", Domain |-> "outlook.com", Count |-> 4],
                   [Code |-> "5.7.1", Domain |-> "yahoo.com", Count |-> 2] >>,
      ExpectedStatus |-> "warning" ],
    [ ID |-> "test-7", IP |-> "203.0.113.16", TotalSent |-> 300,
      Failures |-> <<
                   [Code |-> "5.7.23", Domain |-> "gmail.com", Count |-> 15],
                   [Code |-> "5.7.1", Domain |-> "outlook.com", Count |-> 10] >>,
      ExpectedStatus |-> "quarantine" ],
    [ ID |-> "test-8", IP |-> "203.0.113.17", TotalSent |-> 200,
      Failures |-> <<
                   [Code |-> "5.7.25", Domain |-> "gmail.com", Count |-> 8],
                   [Code |-> "5.7.25", Domain |-> "outlook.com", Count |-> 4] >>,
      ExpectedStatus |-> "quarantine" ],
    [ ID |-> "test-9", IP |-> "203.0.113.18", TotalSent |-> 450,
      Failures |-> <<
                   [Code |-> "5.1.1", Domain |-> "example1.com", Count |-> 5],
                   [Code |-> "5.7.1", Domain |-> "gmail.com", Count |-> 3],
                   [Code |-> "4.2.2", Domain |-> "example2.com", Count |-> 3] >>,
      ExpectedStatus |-> "warning" ],
    [ ID |-> "test-10", IP |-> "203.0.113.19", TotalSent |-> 300,
      Failures |-> <<
                   [Code |-> "5.1.1", Domain |-> "example.com", Count |-> 3] >>,
      ExpectedStatus |-> "healthy" ],
    [ ID |-> "test-11", IP |-> "203.0.113.20", TotalSent |-> 400,
      Failures |-> <<
                   [Code |-> "5.7.606", Domain |-> "outlook.com", Count |-> 8],
                   [Code |-> "5.7.606", Domain |-> "hotmail.com", Count |-> 6],
                   [Code |-> "5.7.1", Domain |-> "live.com", Count |-> 4] >>,
      ExpectedStatus |-> "quarantine" ],
    [ ID |-> "test-12", IP |-> "203.0.113.21", TotalSent |-> 350,
      Failures |-> <<
                   [Code |-> "5.7.512", Domain |-> "gmail.com", Count |-> 5],
                   [Code |-> "5.7.512", Domain |-> "outlook.com", Count |-> 4],
                   [Code |-> "5.7.1", Domain |-> "yahoo.com", Count |-> 3] >>,
      ExpectedStatus |-> "quarantine" ],
    [ ID |-> "test-13", IP |-> "203.0.113.22", TotalSent |-> 250,
      Failures |-> <<
                   [Code |-> "5.7.27", Domain |-> "enterprise.com", Count |-> 5],
                   [Code |-> "5.7.7", Domain |-> "business.net", Count |-> 4],
                   [Code |-> "5.1.8", Domain |-> "corporate.org", Count |-> 4] >>,
      ExpectedStatus |-> "quarantine" ],
    [ ID |-> "test-14", IP |-> "203.0.113.23", TotalSent |-> 300,
      Failures |-> <<
                   [Code |-> "5.7.26", Domain |-> "gmail.com", Count |-> 12],
                   [Code |-> "5.7.26", Domain |-> "yahoo.com", Count |-> 8] >>,
      ExpectedStatus |-> "quarantine" ],
    [ ID |-> "test-15", IP |-> "203.0.113.24", TotalSent |-> 500,
      Failures |-> <<
                   [Code |-> "4.7.1", Domain |-> "gmail.com", Count |-> 8],
                   [Code |-> "5.7.510", Domain |-> "outlook.com", Count |-> 6],
                   [Code |-> "5.4.1", Domain |-> "yahoo.com", Count |-> 4] >>,
      ExpectedStatus |-> "warning" ]
  >>

\* DefaultReputationConfig().WindowMinutes
WindowMinutes == 15

\* no executeTestCase call
NoSuite ==
  [ pc |-> "idle", case |-> 0, group |-> 0, i |-> 0, store |-> {}, totalFailures |-> 0,
    ErrorMessage |-> "", ActualStatus |-> "", Passed |-> FALSE ]

\* the row executeTestCase builds for the i-th failure of a group: its event id is
\* "test-" + testCase.ID + "-" + strconv.Itoa(i) and its timestamp is i minutes ago
simulatedFailure(testCase, failure, i) ==
  [ sending_ip |-> testCase.IP, recipient_domain |-> failure.Domain,
    enhanced_code |-> failure.Code, event_id |-> <<"test-", testCase.ID, i>>,
    timestamp |-> 0 - i ]

\* the position after the i-th failure of group g: the next failure of the group,
\* the first of the next group, or the aggregation
suiteAdvance(l, testCase) ==
  IF l.i + 1 < testCase.Failures[l.group].Count THEN [l EXCEPT !.i = @ + 1]
  ELSE IF l.group < Len(testCase.Failures) THEN [l EXCEPT !.group = @ + 1, !.i = 0]
  ELSE [l EXCEPT !.pc = "aggregate"]

\* executeTestCase, one pass of the inner loop: database.InsertSMTPFailure of the
\* next synthesized failure; an error ends the case as failed
SuiteInsert ==
  /\ suite.pc = "insert"
  /\ LET testCase == getTestCases[suite.case]
         row == simulatedFailure(testCase, testCase.Failures[suite.group], suite.i)
     IN \E dbOk \in BOOLEAN :
          suite' =
            IF dbOk
            THEN suiteAdvance([suite EXCEPT !.store = InsertSMTPFailure(@, row),
                                            !.totalFailures = @ + 1], testCase)
            ELSE [suite EXCEPT !.pc = "done", !.ErrorMessage = "Failed to insert failure"]
  /\ UNCHANGED <<dnsbl_probe, batch, classifier, extracted, aggVars, ingVars, provVars>>

\* AggregateIPOnDemand(payload.IP, config) as executeTestCase uses it: the status
\* aggregateIPMetrics computes and stores for the rows of the window
onDemandStatus(store, ip) ==
  LET failures == GetSMTPFailuresByIP(store, ip, 0 - WindowMinutes)
      totalSent == estimateTotalSent(Cardinality(failures), DefaultReputationConfig)
  IN DetermineIPStatus(CalculateIPHealthCheck(failures, totalSent), DefaultReputationConfig)

\* executeTestCase, the aggregation and the verdict
SuiteAggregate ==
  /\ suite.pc = "aggregate"
  /\ LET testCase == getTestCases[suite.case]
         status == onDemandStatus(suite.store, testCase.IP)
     IN \E dbOk \in BOOLEAN :
          suite' =
            IF dbOk
            THEN [suite EXCEPT !.pc = "done", !.ActualStatus = status,
                               !.Passed = (status = testCase.ExpectedStatus)]
            ELSE [suite EXCEPT !.pc = "done", !.ErrorMessage = "Failed to aggregate"]
  /\ UNCHANGED <<dnsbl_probe, batch, classifier, extracted, aggVars, ingVars, provVars>>

SuiteNext == SuiteInsert \/ SuiteAggregate

\* ----------------------------------------------------------------------
\* POST /api/testing/simulate-failures (specification SimulateSpec)
\* ----------------------------------------------------------------------
\* the failure groups of a request: a domain, a code and a count
FailureGroups ==
  [ Domain : {"gmail.com", "outlook.com"}, Code : {"5.7.1"}, Count : 1..MaxGroupCount ]

\* the failures lists of the requests: none (refused), one group or two
SimulationPayloads ==
  {<<>>} \cup {<<g>> : g \in FailureGroups} \cup {<<g, h>> : g, h \in FailureGroups}

\* the ip of the requests
SimulatedIP == "203.0.113.10"

\* c1 + ... + ck of a failures list
RECURSIVE SumCounts(_)
SumCounts(failures) ==
  IF failures = <<>> THEN 0 ELSE Head(failures).Count + SumCounts(Tail(failures))

\* no simulate-failures request yet; suite holds the handler's locals, the table
\* and time.Now().Unix() in seconds since the first request
NoSimulation ==
  [ pc |-> "idle", failures |-> <<>>, group |-> 0, i |-> 0, store |-> {}, unix |-> 0,
    before |-> 0, insertedCount |-> 0, requests |-> 0, status |-> 0, ip_status |-> "" ]

\* the row the handler builds for the i-th failure of a group: its event id is
\* "test-" + strconv.Itoa(int(time.Now().Unix())) + "-" + strconv.Itoa(i)
simulatedRow(ip, failure, unix, i) ==
  [ sending_ip |-> ip, recipient_domain |-> failure.Domain,
    enhanced_code |-> failure.Code, event_id |-> <<"test-", unix, i>>,
    timestamp |-> 0 - i ]

\* the position after the i-th failure of the group: the next failure of the group,
\* the first of the next group, or the aggregation
simulateAdvance(l) ==
  IF l.i + 1 < l.failures[l.group].Count THEN [l EXCEPT !.i = @ + 1]
  ELSE IF l.group < Len(l.failures) THEN [l EXCEPT !.group = @ + 1, !.i = 0]
  ELSE [l EXCEPT !.pc = "aggregate"]

\* simulateFailuresHandler up to its loops: a request without failures is refused
SimulateRequest ==
  /\ suite.pc \in {"idle", "done"}
  /\ suite.requests < MaxSimulations
  /\ \E failures \in SimulationPayloads :
       suite' =
         IF Len(failures) = 0
         THEN [suite EXCEPT !.pc = "done", !.failures = failures, !.requests = @ + 1,
                            !.before = Cardinality(suite.store), !.insertedCount = 0,
                            !.status = StatusBadRequest, !.ip_status = ""]
         ELSE [suite EXCEPT !.pc = "insert", !.failures = failures, !.requests = @ + 1,
                            !.group = 1, !.i = 0,
                            !.before = Cardinality(suite.store), !.insertedCount = 0,
                            !.status = 0, !.ip_status = ""]
  /\ UNCHANGED <<dnsbl_probe, batch, classifier, extracted, aggVars, ingVars, provVars>>

\* a second passes
SimulateSecond ==
  /\ suite.unix < MaxSeconds
  /\ suite' = [suite EXCEPT !.unix = @ + 1]
  /\ UNCHANGED <<dnsbl_probe, batch, classifier, extracted, aggVars, ingVars, provVars>>

\* one pass of the inner loop: database.InsertSMTPFailure of the next row;
\* insertedCount++ when it returns no error, and the loop goes on either way
SimulateInsert ==
  /\ suite.pc = "insert"
  /\ LET row == simulatedRow(SimulatedIP, suite.failures[suite.group], suite.unix, suite.i)
     IN \E dbOk \in BOOLEAN :
          suite' =
            IF dbOk
            THEN simulateAdvance([suite EXCEPT !.store = InsertSMTPFailure(@, row),
                                               !.insertedCount = @ + 1])
            ELSE simulateAdvance(suite)
  /\ UNCHANGED <<dnsbl_probe, batch, classifier, extracted, aggVars, ingVars, provVars>>

\* AggregateIPOnDemand and the answer: 500 on an error, or 200 with
\* failures_created = insertedCount and the status
SimulateAggregate ==
  /\ suite.pc = "aggregate"
  /\ \E dbOk \in BOOLEAN :
       suite' =
         IF dbOk
         THEN [suite EXCEPT !.pc = "done", !.status = StatusOK,
                            !.ip_status = onDemandStatus(suite.store, SimulatedIP)]
         ELSE [suite EXCEPT !.pc = "done", !.status = StatusInternalServerError]
  /\ UNCHANGED <<dnsbl_probe, batch, classifier, extracted, aggVars, ingVars, provVars>>

SimulateNext == SimulateRequest \/ SimulateSecond \/ SimulateInsert \/ SimulateAggregate

\* ======================================================================
\* The two DNSBL probers on their own (specification ProbeSpec)
\* ======================================================================
\* the zones of the reputation prober (MajorDNSBLs)
MajorDNSBLs ==
  { <<"zen", "spamhaus", "org">>, <<"b", "barracudacentral", "org">>,
    <<"bl", "spamcop", "net">>, <<"cbl", "abuseat", "org">>,
    <<"dnsbl", "sorbs", "net">>, <<"bl", "spamcannibal", "org">>,
    <<"psbl", "surriel", "com">>, <<"dnsbl-1", "uceprotect", "net">> }

\* addresses a probe may be asked about: two IPv4 addresses, an IPv6 address, text
\* with five dot-separated parts, text without dots
ProbeAddrs ==
  {AddrV4, <<"203", "0", "113", "10">>, AddrV6, <<"198", "51", "100", "7", "9">>, <<"localhost">>}

\* net.ParseIP: four decimal parts of 0..255, or an IPv6 literal
ParseIP(ip) ==
  \/ Len(ip) = IPv4Parts /\ \A k \in 1..IPv4Parts : ip[k] \in {ToString(n) : n \in 0..MaxOctet}
  \/ ip = AddrV6

\* the zones a probe's environment may list the address in: one both probers
\* query, one only the reputation prober, one only the provisioner's, and the
\* two ignored families
ListingZones ==
  { <<"zen", "spamhaus", "org">>, <<"bl", "spamcannibal", "org">>,
    <<"dnsbl", "dronebl", "org">>, <<"dnsbl-1", "uceprotect", "net">>,
    <<"sip", "invaluement", "com">> }

\* the DNS: the name <reversed address>.<zone> resolves iff the address is listed
\* in the zone
Resolves(name, zone, ip, listedIn) ==
  /\ Len(ip) = IPv4Parts
  /\ name = [k \in 1..IPv4Parts |-> ip[IPv4Parts + 1 - k]]
  /\ zone \in listedIn

\* reverseIP of the reputation prober: the text itself unless it has four parts
reputationReverseIP(ip) ==
  IF Len(ip) # IPv4Parts THEN ip ELSE <<ip[4], ip[3], ip[2], ip[1]>>

\* checkAllDNSBLs: every zone of MajorDNSBLs whose lookup resolves
checkAllDNSBLs(reversedIP, ip, listedIn) ==
  {dnsbl \in MajorDNSBLs : Resolves(reversedIP, dnsbl, ip, listedIn)}

\* CheckDNSBL of the reputation prober
CheckDNSBL(ip, listedIn) ==
  IF ~ParseIP(ip)
  THEN [err |-> TRUE, Listed |-> FALSE, Listings |-> {}]
  ELSE LET listings == checkAllDNSBLs(reputationReverseIP(ip), ip, listedIn)
       IN [err |-> FALSE, Listed |-> listings # {}, Listings |-> listings]

\* DNSBLChecker.CheckIP of the provisioner, over the same DNS
CheckIPOver(ip, listedIn) ==
  CheckIP(ip, {bl \in Blacklists : ~reverseIP(ip).err
                                   /\ Resolves(reverseIP(ip).reversed, bl, ip, listedIn)})

\* the zones whose lookup fails or times out during one probe: none, one zone that
\* both probers query, or every zone of both probers
ZoneFailures == { {}, {<<"zen", "spamhaus", "org">>}, MajorDNSBLs \cup Blacklists }

\* resolver.LookupHost returns err == nil only for a zone that lists the address
\* and whose lookup does not fail; any error (NXDOMAIN, timeout, failure) makes
\* the zone count as not listing the address
answering(listedIn, failing) == listedIn \ failing

NoAnswer == [err |-> FALSE, asked |-> FALSE]

\* no BatchCheckDNSBL call
NoBatch == [ips |-> {}, running |-> {}, finished |-> {}, results |-> {}, returned |-> FALSE]

FnIdle ==
  /\ dnsbl_probe = [ip |-> <<>>, listedIn |-> {}, failing |-> {}, checker |-> NoAnswer, reputation |-> NoAnswer]
  /\ batch = NoBatch
  /\ classifier = NoClassifier
  /\ extracted = NoExtract /\ suite = NoSuite

ProbeInit ==
  \E ip \in ProbeAddrs : \E listedIn \in SUBSET ListingZones : \E failing \in ZoneFailures :
    dnsbl_probe = [ip |-> ip, listedIn |-> listedIn, failing |-> failing,
                   checker |-> NoAnswer, reputation |-> NoAnswer]
  /\ batch = NoBatch
  /\ classifier = NoClassifier
  /\ extracted = NoExtract /\ suite = NoSuite

\* the provisioner's checker probes the address
ProbeChecker ==
  /\ ~dnsbl_probe.checker.asked
  /\ LET r == CheckIPOver(dnsbl_probe.ip, answering(dnsbl_probe.listedIn, dnsbl_probe.failing))
     IN dnsbl_probe' = [dnsbl_probe EXCEPT !.checker =
          [err |-> r.err, asked |-> TRUE, Listed |-> r.IsBlacklisted, Listings |-> r.Blacklists]]
  /\ UNCHANGED <<batch, classifier, extracted, suite, aggVars, ingVars, provVars>>

\* the reputation prober probes the address
ProbeReputation ==
  /\ ~dnsbl_probe.reputation.asked
  /\ LET r == CheckDNSBL(dnsbl_probe.ip, answering(dnsbl_probe.listedIn, dnsbl_probe.failing))
     IN dnsbl_probe' = [dnsbl_probe EXCEPT !.reputation =
          [err |-> r.err, asked |-> TRUE, Listed |-> r.Listed, Listings |-> r.Listings]]
  /\ UNCHANGED <<batch, classifier, extracted, suite, aggVars, ingVars, provVars>>

ProbeNext == ProbeChecker \/ ProbeReputation

\* ======================================================================
\* BatchCheckDNSBL (specification BatchSpec)
\* ======================================================================
\* BatchCheckDNSBL(ips, timeout) is called with up to MaxBatch addresses
BatchInit ==
  \E ips \in {b \in SUBSET ProbeAddrs : b # {} /\ Cardinality(b) <= MaxBatch} :
    batch = [NoBatch EXCEPT !.ips = ips] /\ classifier = NoClassifier /\ extracted = NoExtract /\ suite = NoSuite

\* the IPs the loop has not reached yet
batchQueued == batch.ips \ (batch.running \cup batch.finished)

\* for _, ip := range ips { wg.Add(1); go func(ip) {...}(ip) }: the loop starts the
\* goroutine of the next IP without waiting for any other
BatchSpawn(ip) ==
  /\ ~batch.returned
  /\ ip \in batchQueued
  /\ batch' = [batch EXCEPT !.running = @ \cup {ip}]
  /\ UNCHANGED <<dnsbl_probe, classifier, extracted, suite, aggVars, ingVars, provVars>>

\* a goroutine's CheckDNSBL returns: its result is stored under mu, or, on an
\* error (an address that does not parse), only logged
BatchProbeDone(ip) ==
  /\ ip \in batch.running
  /\ batch' = [batch EXCEPT !.running = @ \ {ip},
                            !.finished = @ \cup {ip},
                            !.results = IF ParseIP(ip) THEN @ \cup {ip} ELSE @]
  /\ UNCHANGED <<dnsbl_probe, classifier, extracted, suite, aggVars, ingVars, provVars>>

\* wg.Wait() returns once every goroutine is done; return results
BatchReturn ==
  /\ ~batch.returned
  /\ batch.finished = batch.ips
  /\ batch' = [batch EXCEPT !.returned = TRUE]
  /\ UNCHANGED <<dnsbl_probe, classifier, extracted, suite, aggVars, ingVars, provVars>>

BatchNext ==
  \/ \E ip \in ProbeAddrs : BatchSpawn(ip)
  \/ \E ip \in ProbeAddrs : BatchProbeDone(ip)
  \/ BatchReturn

\* the DNS queries in flight: every running CheckDNSBL has started one lookup per
\* zone of MajorDNSBLs at once (addresses that do not parse return before that)
queriesInFlight ==
  Cardinality({ip \in batch.running : ParseIP(ip)}) * Cardinality(MajorDNSBLs)

Init == AggInit /\ IngInit /\ ProvIdle /\ FnIdle


Next ==
  \/ AdvanceTime
  \/ Ingest
  \/ Start
  \/ TickerFire
  \/ SelectTick
  \/ StopBegin
  \/ StopRendezvous
  \/ \E p \in AggProcs : RunStart(p)
  \/ \E p \in AggProcs : RunGetErr(p)
  \/ \E p \in AggProcs : AggRead(p)
  \/ \E p \in AggProcs : AggSave(p)
  \/ \E p \in AggProcs : AggAction(p)
  \/ \E p \in AggProcs : RunStats(p)
  \/ \E ip \in IPs : QuarantineRequest(ip)
  \/ QuarantineForce
  \/ QuarantineAction

vars == <<aggVars, ingVars, provVars, fnVars>>

Spec == Init /\ [][Next]_vars

\* the aggregator alone (no webhook, no manual quarantine) over a seeded store
RunNext ==
  \/ AdvanceTime
  \/ Start
  \/ TickerFire
  \/ SelectTick
  \/ StopBegin
  \/ StopRendezvous
  \/ \E p \in AggProcs : RunStart(p)
  \/ \E p \in AggProcs : RunGetErr(p)
  \/ \E p \in AggProcs : AggRead(p)
  \/ \E p \in AggProcs : AggSave(p)
  \/ \E p \in AggProcs : AggAction(p)
  \/ \E p \in AggProcs : RunStats(p)

RunInit ==
  /\ now = 0
  /\ smtp_failures \in SeedStores
  /\ landed = {}
  /\ AggAtRest
  /\ IngInit
  /\ ProvIdle
  /\ FnIdle

RunSpec == RunInit /\ [][RunNext]_vars

IngestSpec == Init /\ [][IngestNext]_vars

\* one probe by each prober, for any address and any listing
ProbeSpecInit == AggInit /\ IngInit /\ ProvIdle /\ ProbeInit

ProbeSpec == ProbeSpecInit /\ [][ProbeNext]_vars

\* one BatchCheckDNSBL call over any batch
BatchSpecInit ==
  /\ AggInit /\ IngInit /\ ProvIdle
  /\ dnsbl_probe = [ip |-> <<>>, listedIn |-> {}, failing |-> {}, checker |-> NoAnswer, reputation |-> NoAnswer]
  /\ BatchInit

ClassifyInit ==
  /\ \E totalSent \in SentInputs :
       classifier = [NoClassifier EXCEPT !.totalSent = totalSent,
                                         !.result = classify({}, totalSent)]
  /\ dnsbl_probe = [ip |-> <<>>, listedIn |-> {}, failing |-> {}, checker |-> NoAnswer, reputation |-> NoAnswer]
  /\ batch = NoBatch
  /\ extracted = NoExtract /\ suite = NoSuite

DomainInit ==
  /\ \E recipient \in Recipients : extracted = [NoExtract EXCEPT !.recipient = recipient]
  /\ suite = NoSuite
  /\ dnsbl_probe = [ip |-> <<>>, listedIn |-> {}, failing |-> {}, checker |-> NoAnswer, reputation |-> NoAnswer]
  /\ batch = NoBatch
  /\ classifier = NoClassifier

DomainSpecInit == AggInit /\ IngInit /\ ProvIdle /\ DomainInit
DomainSpec == DomainSpecInit /\ [][DomainNext]_vars

\* executeTestCase is called for one case of the catalogue on an empty store
SuiteInit ==
  /\ dnsbl_probe = [ip |-> <<>>, listedIn |-> {}, failing |-> {}, checker |-> NoAnswer, reputation |-> NoAnswer]
  /\ batch = NoBatch
  /\ classifier = NoClassifier
  /\ extracted = NoExtract
  /\ \E n \in DOMAIN getTestCases :
       suite = [NoSuite EXCEPT !.pc = "insert", !.case = n, !.group = 1]

SuiteSpecInit == AggInit /\ IngInit /\ ProvIdle /\ SuiteInit
SuiteSpec == SuiteSpecInit /\ [][SuiteNext]_vars

\* no simulate-failures request has been made, the table is empty
SimulateInit ==
  /\ dnsbl_probe = [ip |-> <<>>, listedIn |-> {}, failing |-> {}, checker |-> NoAnswer, reputation |-> NoAnswer]
  /\ batch = NoBatch
  /\ classifier = NoClassifier
  /\ extracted = NoExtract
  /\ suite = NoSimulation

SimulateSpecInit == AggInit /\ IngInit /\ ProvIdle /\ SimulateInit
SimulateSpec == SimulateSpecInit /\ [][SimulateNext]_vars

\* estimateTotalSent is about to be called: the window holds 0..MaxFailureCount
\* failures of the IP, the query may fail, the service has some configuration
EstimateInit ==
  /\ \E n \in 0..MaxFailureCount : \E ok \in BOOLEAN : \E v \in ConfiguredMinVolumes :
       classifier = [ failureCount |-> n, queryOk |-> ok, config |-> configWithMinVolume(v),
                      totalSent |-> 0, last |-> "estimate_call" ]
  /\ dnsbl_probe = [ip |-> <<>>, listedIn |-> {}, failing |-> {}, checker |-> NoAnswer, reputation |-> NoAnswer]
  /\ batch = NoBatch
  /\ extracted = NoExtract /\ suite = NoSuite

EstimateSpecInit == AggInit /\ IngInit /\ ProvIdle /\ EstimateInit
EstimateSpec == EstimateSpecInit /\ [][EstimateNext]_vars

\* a health snapshot has been computed and is about to be classified
CascadeInit ==
  /\ \E m \in Snapshots :
       classifier = [NoClassifier EXCEPT !.totalSent = m.TotalSent,
                                         !.result = [health |-> withRatio(m), status |-> ""],
                                         !.last = "snapshot"]
  /\ dnsbl_probe = [ip |-> <<>>, listedIn |-> {}, failing |-> {}, checker |-> NoAnswer, reputation |-> NoAnswer]
  /\ batch = NoBatch
  /\ extracted = NoExtract /\ suite = NoSuite

CascadeSpecInit == AggInit /\ IngInit /\ ProvIdle /\ CascadeInit
CascadeSpec == CascadeSpecInit /\ [][CascadeNext]_vars

ClassifySpecInit == AggInit /\ IngInit /\ ProvIdle /\ ClassifyInit
ClassifySpec == ClassifySpecInit /\ [][ClassifyNext]_vars

BatchSpec == BatchSpecInit /\ [][BatchNext]_vars

\* the aggregator and the webhook at rest, any upstream inventory
\* any inventory of at most MaxInventory blocks, each referenced by a row of the
\* database with some status, or by none
DeleteInit ==
  /\ \E inv \in {i \in SUBSET PreBlocks : Cardinality(i) <= MaxInventory} :
     \E ref \in [inv -> {"none", "reserved", "in_use", "released"}] :
       /\ blocks = inv
       /\ reserved_ips = {rowOf(b, ref[b], <<"pre", 0>>) : b \in {c \in inv : ref[c] # "none"}}
  /\ attempts = {}
  /\ quota_snapshots = {}
  /\ wf = [w \in Workflows |-> IdleWf]
  /\ cleanup = IdleCleanup
  /\ vetting = {}
  /\ cleanup_deleted = {}

DeleteSpecInit == AggInit /\ IngInit /\ DeleteInit /\ FnIdle
DeleteSpec == DeleteSpecInit /\ [][DeleteNext]_vars

ProvSpecInit == AggInit /\ IngInit /\ ProvInit /\ FnIdle

ProvSpec == ProvSpecInit /\ [][ProvNext]_vars

\* every call of a workflow returns: the workflow keeps taking steps
ProvFairSpec ==
  ProvSpecInit /\ [][ProvNext]_vars /\ \A w \in Workflows : WF_vars(WfStep(w))

\* ======================================================================
\* Properties of the aggregator (specification Spec)
\* ======================================================================
\* no aggregation code is in flight: every goroutine is idle or waits in the select
Quiescent == \A p \in AggProcs : agg[p].pc \in {"idle", "select"}

\* the rows of ip_actions that tell a reader the status of ip: status_change and
\* manual_quarantine rows, as indexes into ip_actions
StatusRowsOf(ip) ==
  {i \in DOMAIN ip_actions :
     ip_actions[i].ip = ip /\ ip_actions[i].action \in {"status_change", "manual_quarantine"}}

\* C1: at no time are two aggregation runs (the immediate startup run, the
\* ticker-triggered runs) inside runAggregation at once.
C1_RunsMutuallyExclusive ==
  Cardinality({p \in InitProcs \cup {TickProc} : InRun(p)}) <= 1

\* C3: an aggregation whose previous status is the sentinel "unknown" (no stored
\* row, first observation) never reaches handleStatusChange, so no status_change
\* row carries previous_status = "unknown", whatever the classifier returned.
C3_FirstObservationSilent ==
  /\ \A p \in AggProcs :
       /\ agg[p].pc \in {"agg_save", "agg_action"} /\ agg[p].firstObs
            => agg[p].oldStatus = "unknown"
       /\ agg[p].pc = "agg_action" => agg[p].oldStatus # "unknown"
  /\ \A i \in DOMAIN ip_actions :
       ip_actions[i].action = "status_change" => ip_actions[i].previous_status # "unknown"

\* C3 witness: a run's first observation stored a non-healthy status for an IP and
\* no action row was appended
C3_Witness ==
  /\ Quiescent
  /\ calls.requests = 0
  /\ ip_actions = <<>>
  /\ status_log = {}
  /\ \E ip \in IPs : metrics[ip] # NotFound /\ metrics[ip].Status \in {"warning", "quarantine"}

\* C4: once no aggregation is in flight, every change of a stored status from prev
\* to new that the aggregator committed has its status_change (prev, new) row.
C4_EveryChangeAudited ==
  Quiescent =>
    \A c \in status_log :
      c[4] = "aggregation" =>
        \E i \in DOMAIN ip_actions :
          /\ ip_actions[i].ip = c[1]
          /\ ip_actions[i].action = "status_change"
          /\ ip_actions[i].previous_status = c[2]
          /\ ip_actions[i].new_status = c[3]

\* C5: once no aggregation is in flight, a reader that takes the latest action row
\* announcing a status of an IP (new_status = X) and then reads the IP's stored
\* state finds status X.
C5_LatestActionMatchesState ==
  Quiescent =>
    \A ip \in IPs :
      \A i \in StatusRowsOf(ip) :
        (\A j \in StatusRowsOf(ip) : j <= i)
          => metrics[ip] # NotFound /\ metrics[ip].Status = ip_actions[i].new_status

\* the snapshot a stored row holds: the columns of the row, and throttle_count as
\* the count of its codes that start with "4"
storedHealth(row) ==
  [ TotalSent |-> row.TotalSent, TotalRejected |-> row.TotalRejected,
    RejectionRatio |-> row.RejectionRatio,
    UniqueDomainsRejected |-> row.UniqueDomainsRejected,
    MajorProviders |-> row.MajorProviders, ReputationCodes |-> row.ReputationCodes,
    ThrottleCount |-> CodeCount(row.ReputationCodes, "4.7.0")
                      + CodeCount(row.ReputationCodes, "4.7.1")
                      + CodeCount(row.ReputationCodes, "4.2.1")
                      + CodeCount(row.ReputationCodes, "4.2.2") ]

\* C19: at all times the status of every stored row is the classifier's output over
\* the snapshot of the same row, and no writer other than the aggregator has
\* changed a stored status.
C19_StatusIsClassifierOutput ==
  /\ \A ip \in IPs :
       metrics[ip] # NotFound
         => metrics[ip].Status
              = DetermineIPStatus(storedHealth(metrics[ip]), DefaultReputationConfig)
  /\ \A c \in status_log : c[4] = "aggregation"

\* C20: when a manual-quarantine request is answered as a success, the stored status
\* of its IP is quarantine, a manual_quarantine row of the IP is in ip_actions, and
\* a DNSBL probe of the IP has been dispatched.
C20_ManualQuarantineEffects ==
  [][ (agg[ReqProc].pc = "q_action" /\ agg'[ReqProc].pc = "idle")
      => LET ip == agg[ReqProc].ip
         IN /\ metrics'[ip] # NotFound /\ metrics'[ip].Status = "quarantine"
            /\ \E i \in DOMAIN ip_actions' :
                 /\ ip_actions'[i].ip = ip
                 /\ ip_actions'[i].action = "manual_quarantine"
                 /\ ip_actions'[i].triggered_by = "manual"
            /\ ip \in dnsbl_dispatched'
    ]_vars

\* C32: every status change the aggregator records (a status_change row, written
\* when the previous status is known and differs from the new one) is followed,
\* whatever the new status, by the dispatch of a DNSBL probe of that IP.
C32_EveryChangeDispatchesProbe ==
  [][ \A p \in AggProcs :
        (agg[p].pc = "agg_action" /\ agg'[p].pc # "agg_action"
           /\ Len(ip_actions') = Len(ip_actions) + 1)
          => agg[p].ip \in dnsbl_dispatched'
    ]_vars

\* C30: for each change of an IP's stored status exactly one status_change row is
\* recorded, also when aggregations of the IP overlap (a run with an on-demand
\* aggregation, a manual quarantine or another run): with no database error, an
\* aggregation goes on to record a status_change exactly when its write changed
\* the stored status, and the previous status it records is the one that was
\* stored immediately before its write.
C30_OneActionPerStoredChange ==
  [][ \A p \in AggProcs :
        (agg[p].pc = "agg_save" /\ agg'[p].pc # "agg_save" /\ calls'.faults = 0)
          => LET ip == agg[p].ip
                 changed == /\ metrics[ip] # NotFound
                            /\ metrics'[ip].Status # metrics[ip].Status
             IN /\ agg'[p].pc = "agg_action" <=> changed
                /\ agg'[p].pc = "agg_action" => agg'[p].oldStatus = metrics[ip].Status
    ]_vars

\* the ticker goroutine's scan succeeds in this step
TickScans == agg[TickProc].pc = "run_start" /\ agg'[TickProc].pc \in {"agg_read", "run_stats"}

\* the ticker goroutine's run stores the snapshot of its current IP in this step
TickStores ==
  /\ agg[TickProc].pc = "agg_save"
  /\ agg'[TickProc].pc # "agg_save"
  /\ agg'[TickProc].errs = agg[TickProc].errs

C2_DuplicateIngestNoOp ==
  /\ (last_ingest.was_present /\ ~last_ingest.err) => last_ingest.unchanged
  /\ (last_ingest.by # "none" /\ ~last_ingest.err) => last_ingest.counted = "processed"
  /\ smtp_failures = first_rows

\* C2 witness: the last insert carried a stored fingerprint with a row that
\* differs from the stored one, and was answered as a success
C2_Witness ==
  /\ last_ingest.was_present
  /\ ~last_ingest.err
  /\ \E r \in smtp_failures :
       r.event_id = last_ingest.failure.event_id /\ r # last_ingest.failure
  /\ last_ingest.counted = "processed"

\* the events of a payload the handler stores
failureEvents(payload) == {k \in 1..Len(payload) : payload[k].type = FailureType}

\* handler h has written its response to a payload that decoded
Responded(h) == hooks[h].pc = "idle" /\ hooks[h].status = StatusOK

\* C14: when the insert of an event of a batch fails with a storage error, the
\* handler still attempts every remaining event of the batch (each failure event
\* is counted as processed or failed) and then answers with a 5xx status.
C14_StorageErrorSurfaces5xx ==
  \A h \in WebhookProcs :
    (hooks[h].pc = "idle" /\ hooks[h].status # 0 /\ hooks[h].failed > 0)
      => /\ hooks[h].processed + hooks[h].failed
              = Cardinality(failureEvents(hooks[h].payload))
         /\ hooks[h].status >= StatusInternalServerError

\* C15: for every payload that decodes, only events of type smtp.delivery.failure
\* reach the insert; the response reports total = the number of events of the
\* payload and processed + failed = the number of events of that type; and an
\* insert of a fingerprint that is already stored is counted as processed.
C15_WebhookCounts ==
  /\ \A h \in WebhookProcs :
       /\ hooks[h].pc = "insert"
            => /\ hooks[h].i \in failureEvents(hooks[h].payload)
               /\ hooks[h].failure.event_id = hooks[h].payload[hooks[h].i].id
               /\ hooks[h].processed + hooks[h].failed
                    = Cardinality({k \in failureEvents(hooks[h].payload) : k < hooks[h].i})
       /\ Responded(h)
            => /\ hooks[h].total = Len(hooks[h].payload)
               /\ hooks[h].processed + hooks[h].failed
                    = Cardinality(failureEvents(hooks[h].payload))
  /\ (last_ingest.by # "none" /\ last_ingest.was_present /\ ~last_ingest.err)
       => last_ingest.counted = "processed" /\ last_ingest.unchanged

\* C15 witness: a response to a payload of two events of which one is of another
\* type, after an insert of a stored fingerprint that was counted as processed
C15_Witness ==
  \E h \in WebhookProcs :
    /\ Responded(h)
    /\ h = last_ingest.by
    /\ Len(hooks[h].payload) = MaxPayload
    /\ Cardinality(failureEvents(hooks[h].payload)) = 1
    /\ hooks[h].total = MaxPayload
    /\ hooks[h].processed = 1
    /\ last_ingest.was_present
    /\ last_ingest.counted = "processed"

\* ======================================================================
\* Properties of the provisioner and the cleanup (ProvSpec, ProvFairSpec)
\* ======================================================================
\* the reserved_ips rows the workflow w stored
StoredBy(w) == {r \in reserved_ips : r.uid = <<w, 1>>}

\* C6: CleanupSingleIPBlocks never deletes upstream a block whose declared size is
\* 11, whatever the inventory and whatever the database references.
C6_CleanupSparesSize11 ==
  \A d \in cleanup_deleted : d.size # ProtectedBlockSize

\* C6 witness: a cleanup ran to its end over an inventory holding a block of
\* declared size 11 with a single address that no row protects; the block is
\* still there
C6_Witness ==
  /\ cleanup.pc = "idle"
  /\ cleanup.result = "completed"
  /\ \E b \in blocks :
       /\ b.size = ProtectedBlockSize
       /\ Len(b.ips) = SingleBlockSize
       /\ b.id \notin inUseBlocks(reserved_ips)

\* C7: no block that CleanupSingleIPBlocks deletes is, at the moment of the
\* delete, referenced by a reserved_ips row with status reserved or in_use.
C7_CleanupSparesReferenced ==
  \A d \in cleanup_deleted : ~d.referenced

\* C34: every block CleanupSingleIPBlocks deletes upstream has declared size 1: a
\* block whose declared size is not 1 is never deleted by cleanup, whatever the
\* length of its IP list.
C34_CleanupDeletesDeclaredSingles ==
  \A d \in cleanup_deleted : d.size = SingleBlockSize

\* C36: a DELETE /ips/reserved/{id} request removes the record of that IP and,
\* upstream, at most the block of that IP: while the request runs, no upstream
\* block other than the one its row names is deleted and no other row is removed.
C36_DeleteTouchesOwnBlockOnly ==
  [][ cleanup.target # {}
        => /\ \A b \in blocks \ blocks' : \A r \in cleanup.target : b.id = r.block_id
           /\ (reserved_ips \ reserved_ips') \subseteq cleanup.target
    ]_vars

\* C28: under any interleaving of workflows and cleanup runs, no reserved_ips row
\* with status reserved that a workflow stored refers to a block that cleanup has
\* deleted upstream: cleanup never deletes a block a concurrent workflow has
\* reserved and keeps.
C28_CleanupSparesConcurrentWorkflow ==
  \A w \in Workflows :
    \A r \in StoredBy(w) :
      r.status = "reserved" => \A d \in cleanup_deleted : d.id # r.block_id

\* C29: an attempt keeps or drops its block atomically: on every exit path of
\* reserveSingleIP after the upstream reservation (no address assigned, listed
\* address, failed upstream delete, failed store, success) the block the attempt
\* reserved is deleted upstream or referenced by a reserved_ips row when the
\* attempt ends.
C29_KeepOrDropAtomic ==
  [][ \A w \in Workflows :
        (wf[w].pc \in {"getblock", "vet"} /\ wf'[w].pc \in {"loop", "sleep"})
          => \/ \A b \in blocks' : b.id # wf[w].block
             \/ \E r \in reserved_ips' : r.block_id = wf[w].block
    ]_vars

\* C33: whenever the vetting probe of an attempt reports the new address as listed,
\* the block is deleted upstream, the attempt is recorded with action_taken =
\* deleted, and no reserved_ips row is stored for that address.
C33_ListedBlockDeleted ==
  [][ \A w \in Workflows :
        (wf[w].pc = "vet" /\ wf'[w].blacklistedCount = wf[w].blacklistedCount + 1)
          => /\ \A b \in blocks' : b.id # wf[w].block
             /\ attemptRow(w, wf[w], FALSE, "deleted") \in attempts'
             /\ reserved_ips' = reserved_ips
    ]_vars

\* C35: within one workflow the inter-attempt delay elapses between every two
\* consecutive upstream reserve attempts, whatever the outcome of the earlier one:
\* when a workflow makes a further upstream reserve call, each of its earlier
\* attempts ended with the delay (the delay follows exactly the kept and the
\* deleted attempts, which successCount and blacklistedCount count).
C35_DelayBetweenAttempts ==
  [][ \A w \in Workflows :
        (wf[w].pc = "reserve" /\ wf'[w].reserve_calls = wf[w].reserve_calls + 1)
          => wf[w].successCount + wf[w].blacklistedCount = wf[w].reserve_calls
    ]_vars

\* C37: the number of blocks held upstream never exceeds the estimated quota limit
\* as a result of a workflow that passed the quota check, the blocks of its failed
\* attempts included: no upstream reservation of a workflow brings the inventory
\* above max_quota.
C37_ReservationsWithinQuota ==
  [][ \A w \in Workflows :
        (wf[w].pc = "reserve" /\ blocks' # blocks)
          => Cardinality(blocks') <= MaxQuota
    ]_vars

\* C8: every reserved_ips row a workflow stored is for an address whose vetting
\* probe reported it as not listed.
C8_StoredOnlyIfProbedClean ==
  \A w \in Workflows :
    \A r \in StoredBy(w) :
      \E v \in vetting : v.ip = r.ip /\ v.outcome = "not_listed"

\* the bounds of C9 in every state of a ReserveCleanIPs(count) call
C9_Bounds ==
  \A w \in Workflows :
    /\ wf[w].reserve_calls <= wf[w].count * AttemptsPerIP
    /\ wf[w].successCount <= wf[w].count
    /\ Cardinality(StoredBy(w)) <= wf[w].count

\* C9: every ReserveCleanIPs(count) call returns, having made at most count * 5
\* upstream reserve calls and kept at most count addresses.
C9_LoopTerminatesBounded ==
  /\ []C9_Bounds
  /\ \A w \in Workflows : (wf[w].pc = "quota") ~> (wf[w].pc = "done")

\* C9 witness: a call returned after using its last allowed attempt, which kept
\* the address it was asked for
C9_Witness ==
  \E w \in Workflows :
    /\ wf[w].pc = "done"
    /\ wf[w].result = "completed"
    /\ wf[w].reserve_calls = wf[w].count * AttemptsPerIP
    /\ wf[w].successCount = wf[w].count

\* C10: a call whose quota check found remaining < count has failed with the quota
\* error at once: it made no upstream reserve call and stored no reserved_ips row
\* and no attempt row.
C10_QuotaFailsFirst ==
  \A w \in Workflows :
    /\ ( /\ wf[w].pc \notin {"idle", "quota"}
         /\ wf[w].result # "quota_check_failed"
         /\ wf[w].remaining < wf[w].count )
         => wf[w].pc = "done" /\ wf[w].result = "insufficient_quota"
    /\ wf[w].result = "insufficient_quota"
         => /\ wf[w].reserve_calls = 0
            /\ StoredBy(w) = {}
            /\ \A a \in attempts : a.wf # w

\* C10 witness: a request failed on the quota, with the snapshot of its check stored
C10_Witness ==
  \E w \in Workflows :
    /\ wf[w].result = "insufficient_quota"
    /\ \E q \in quota_snapshots : q.Remaining < wf[w].count

\* what workflow w has accumulated: the addresses it kept and its counters
accumulated(l) ==
  [ ReservedIPs |-> l.reserved, SuccessCount |-> l.successCount,
    BlacklistedCount |-> l.blacklistedCount, FailureCount |-> l.failureCount ]

\* C22: once the request context is cancelled the workflow sends no further reserve
\* call upstream, and the caller of a cancelled workflow receives what the workflow
\* has accumulated: the addresses already reserved and the counters.
C22_CancelReturnsPartial ==
  /\ [][\A w \in Workflows :
          wf[w].cancelled => wf'[w].reserve_calls = wf[w].reserve_calls]_vars
  /\ [](\A w \in Workflows :
          (wf[w].pc = "done" /\ wf[w].result = "cancelled")
            => /\ wf[w].answer.ReservedIPs = accumulated(wf[w]).ReservedIPs
               /\ wf[w].answer.SuccessCount = accumulated(wf[w]).SuccessCount
               /\ wf[w].answer.BlacklistedCount = accumulated(wf[w]).BlacklistedCount
               /\ wf[w].answer.FailureCount = accumulated(wf[w]).FailureCount)

\* ======================================================================
\* Properties of one aggregation run (specification RunSpec)
\* ======================================================================
\* the goroutines that execute runAggregation
RunProcs == InitProcs \cup {TickProc}

\* C11: an error of aggregateIPMetrics for one IP does not end the run: it is
\* counted in errorCount and the loop goes on, so every candidate the run found is
\* processed and counted exactly once, as a success or as an error, before the
\* run writes its statistics.
C11_TickSurvivesIPError ==
  \A p \in RunProcs :
    LET l == agg[p]
    IN /\ l.pc = "agg_read"
            => l.todo # {} /\ l.success + l.errs + Cardinality(l.todo) = l.found
       /\ l.pc \in {"agg_save", "agg_action"}
            => l.success + l.errs + Cardinality(l.todo) + 1 = l.found
       /\ l.pc = "run_stats" => l.todo = {} /\ l.success + l.errs = l.found

\* C11 witness: a run over two candidates is about to write its statistics, one
\* IP having failed and the other having been aggregated
C11_Witness ==
  \E p \in RunProcs :
    /\ agg[p].pc = "run_stats"
    /\ agg[p].found = Cardinality(IPs)
    /\ agg[p].errs = 1
    /\ agg[p].success = 1

\* C23: when Stop is called while the ticker goroutine is inside runAggregation,
\* the run finishes the IP it is processing and starts no further one: from the
\* moment Stop has stopped the ticker and waits on stopChan, a tick that is in its
\* loop over the candidates takes no IP from the list it still has to process.
C23_StopDrainsCurrentIP ==
  [][(mu = "Stop" /\ agg[TickProc].pc \in {"agg_read", "agg_save", "agg_action"})
        => agg'[TickProc].todo = agg[TickProc].todo]_vars

\* C27: every Stop() on a running aggregator returns and leaves the service not
\* running, also when it is called while the ticker goroutine is inside
\* runAggregation: the stop signal is always received and mu is never held
\* forever.  Stop sends on the unbuffered stopChan while it holds mu, and only the
\* select of the ticker goroutine receives from it; so Stop can return only if the
\* ticker goroutine is never waiting for mu while Stop holds it.
C27_StopAlwaysReturns ==
  ~(mu = "Stop" /\ agg[TickProc].pc \in {"run_geterr", "run_stats"})

\* ======================================================================
\* Properties of the DNSBL probers (specification ProbeSpec)
\* ======================================================================
\* C40: for every IPv4 address a.b.c.d the name queried is d.c.b.a.<zone>
\* (reverseIP returns d.c.b.a), and an input that does not consist of exactly four
\* dot-separated parts is rejected with an error rather than queried, by the
\* provisioner's checker and by the reputation prober.
C40_ReversedOrRejected ==
  LET ip == dnsbl_probe.ip
      dcba == [k \in 1..IPv4Parts |-> ip[IPv4Parts + 1 - k]]
  IN /\ dnsbl_probe.checker.asked
          => IF Len(ip) = IPv4Parts
             THEN ~reverseIP(ip).err /\ reverseIP(ip).reversed = dcba
             ELSE dnsbl_probe.checker.err
     /\ dnsbl_probe.reputation.asked
          => IF Len(ip) = IPv4Parts
             THEN reputationReverseIP(ip) = dcba
             ELSE dnsbl_probe.reputation.err

\* the answer of a prober lists no ignored zone and counts the address as listed
\* only if a zone that is not ignored lists it
HonoursIgnoreList(answer) ==
  (answer.asked /\ ~answer.err) =>
    /\ \A zone \in answer.Listings : ~isIgnored(zone)
    /\ answer.Listed => \E zone \in dnsbl_probe.listedIn : ~isIgnored(zone)

\* C12: for any probe by either prober (the provisioner's DNSBLChecker, the
\* reputation prober CheckDNSBL), a zone of the ignore list (UCEProtect,
\* Invaluement) is never among the listings and never makes the address count as
\* listed, even when the query to the zone resolves.
C12_IgnoredZonesNeverListed ==
  HonoursIgnoreList(dnsbl_probe.checker) /\ HonoursIgnoreList(dnsbl_probe.reputation)

\* the answer of a prober that queried `zones`: no zone whose lookup failed is
\* among the listings; the probe of a valid address fails (ProbeTimeout) exactly
\* when the lookup of every zone it queried failed, and returns a result otherwise
ZoneErrorsHandled(answer, zones, valid) ==
  (answer.asked /\ valid) =>
    /\ ~answer.err => answer.Listings \cap dnsbl_probe.failing = {}
    /\ answer.err <=> zones \subseteq dnsbl_probe.failing

\* C24: a lookup of one zone that fails or times out makes the zone count as not
\* listing the address, and a probe returns a result unless the lookup of every
\* zone failed; then the probe fails (ProbeTimeout) and does not report the
\* address as not listed.
C24_AllZonesErroredIsTimeout ==
  /\ ZoneErrorsHandled(dnsbl_probe.checker, Blacklists, ~reverseIP(dnsbl_probe.ip).err)
  /\ ZoneErrorsHandled(dnsbl_probe.reputation, MajorDNSBLs, ParseIP(dnsbl_probe.ip))

\* C25: running a case of the catalogue (its failures synthesized inside the
\* window, then its IP aggregated) yields exactly the expected status of the
\* case, so the case is reported as passed.
C25_CatalogueCasesPass ==
  (suite.pc = "done" /\ suite.ErrorMessage = "")
     => /\ suite.ActualStatus = getTestCases[suite.case].ExpectedStatus
        /\ suite.Passed

\* C13: a batch probe keeps the number of probes (and so of DNS queries) in flight
\* under a constant that does not depend on the number N of IPs: here, a batch of
\* MaxBatch IPs never has more in flight than a batch of MaxBatch - 1 IPs can have.
C13_BatchInFlightBounded ==
  /\ Cardinality(batch.running) <= MaxBatch - 1
  /\ queriesInFlight <= (MaxBatch - 1) * Cardinality(MajorDNSBLs)

\* ======================================================================
\* Properties of the classifier (ClassifySpec)
\* ======================================================================

\* the ordering healthy < warning < quarantine < blacklisted
StatusRank(status) ==
  CASE status = "healthy" -> 0
    [] status = "warning" -> 1
    [] status = "quarantine" -> 2
    [] status = "blacklisted" -> 3

\* the window before its newest failure
windowBefore == {f \in classifier.failures : f.event_id < Cardinality(classifier.failures)}

\* C16: with total_sent < min_volume_for_assessment the classifier answers healthy,
\* whatever the failures of the window are.
C16_BelowMinVolumeHealthy ==
  classifier.totalSent < MinVolumeForAssessment => classifier.result.status = "healthy"

\* C16 witness: min_volume_for_assessment - 1 sent, with failures that are classified
\* blacklisted as soon as the minimum volume is sent
C16_Witness ==
  /\ classifier.totalSent = MinVolumeForAssessment - 1
  /\ classifier.result.status = "healthy"
  /\ classify(classifier.failures, MinVolumeForAssessment).status = "blacklisted"

\* C17: with total_sent fixed at or above min_volume_for_assessment, one more failure
\* with a reputation-tier code in the window never moves the status to a better tier.
C17_MoreFailuresNeverBetter ==
  [][ ( /\ classifier'.totalSent = classifier.totalSent
        /\ classifier.totalSent >= MinVolumeForAssessment
        /\ classifier.failures \subseteq classifier'.failures
        /\ classifier'.failures # classifier.failures
        /\ \A f \in classifier'.failures \ classifier.failures :
              f.enhanced_code \in ReputationTierCodes )
      => StatusRank(classifier'.result.status) >= StatusRank(classifier.result.status)
    ]_vars

\* C17 witness: a failure with a reputation-tier code has just moved a window with
\* enough volume from quarantine to blacklisted
C17_Witness ==
  /\ classifier.totalSent >= MinVolumeForAssessment
  /\ classifier.last \in ReputationTierCodes
  /\ classify(windowBefore, classifier.totalSent).status = "quarantine"
  /\ classifier.result.status = "blacklisted"

\* C38: the sent-volume estimate the aggregator uses is a non-negative integer and
\* at least min_volume_for_assessment, for every failure count and every
\* configuration, also when the query of the failure count fails.
C38_EstimateAtLeastMinVolume ==
  classifier.last = "estimate_return"
    => /\ classifier.totalSent \in Nat
       /\ classifier.totalSent >= classifier.config.MinVolumeForAssessment

\* C39: a simulate-failures request whose groups have counts c1..ck adds exactly
\* c1 + ... + ck rows to the event store (the synthesized fingerprints are
\* pairwise distinct, across the groups of a request and across requests): when
\* the request is answered and none of its inserts returned an error, the table
\* has grown by the sum of the counts.
C39_SimulationAddsEveryFailure ==
  (suite.pc = "done" /\ suite.status = StatusOK
     /\ suite.insertedCount = SumCounts(suite.failures))
    => Cardinality(suite.store) = suite.before + SumCounts(suite.failures)

\* the tiers of the cascade as the thresholds of the configuration state them,
\* on the counts of a snapshot (r rejected of s sent, ratios as percentages)
TierBlacklisted(h) ==
  /\ 100 * h.TotalRejected > BlacklistRejectionRatioPct * h.TotalSent
  /\ h.UniqueDomainsRejected >= BlacklistMinDomains
  /\ Cardinality(h.MajorProviders) >= BlacklistMinMajorProviders
  /\ hasReputationRelatedCodes(h.ReputationCodes)

TierQuarantine(h) ==
  \/ /\ 100 * h.TotalRejected > QuarantineRejectionRatioPct * h.TotalSent
     /\ Cardinality(h.MajorProviders) >= 1
  \/ /\ 100 * h.TotalRejected > BlacklistRejectionRatioPct * h.TotalSent
     /\ h.UniqueDomainsRejected >= QuarantineMinDomains

TierWarning(h) ==
  \/ 100 * h.TotalRejected >= WarningRejectionRatioPct * h.TotalSent
  \/ (h.ThrottleCount > 10 /\ h.TotalRejected > 0)
  \/ CodeCount(h.ReputationCodes, "5.7.1") >= 5

ComputedRatioOK ==
  LET h == classifier.result.health
  IN /\ h.RejectionRatio[2] > 0
     /\ h.RejectionRatio[1] >= 0
     /\ h.TotalSent > 0 => h.RejectionRatio[1] * h.TotalSent = h.TotalRejected * h.RejectionRatio[2]
     /\ h.TotalSent <= 0 => h.RejectionRatio[1] = 0

\* C18 as stated: every computed and every stored state has rejection_ratio >= 0,
\* rejection_ratio = total_rejected / total_sent when total_sent > 0, and
\* rejection_ratio = 0 when total_sent = 0.
C18_RatioExact ==
  /\ ComputedRatioOK
  /\ classifier.stored # NotFound =>
       LET r == classifier.stored
       IN /\ r.RejectionRatio[1] >= 0 /\ r.RejectionRatio[2] > 0
          /\ r.TotalSent > 0 => r.RejectionRatio[1] * r.TotalSent = r.TotalRejected * r.RejectionRatio[2]
          /\ r.TotalSent = 0 => r.RejectionRatio[1] = 0

\* C18 amended: every computed state has rejection_ratio >= 0, = total_rejected /
\* total_sent when total_sent > 0 and 0 otherwise; every stored state holds that
\* ratio rounded to four decimals (it differs from total_rejected / total_sent by
\* at most 0.00005), and 0 when total_sent = 0.
C18_RatioRoundedWhenStored ==
  /\ ComputedRatioOK
  /\ classifier.stored # NotFound =>
       LET r == classifier.stored
           n == r.RejectionRatio[1]
       IN /\ n >= 0 /\ r.RejectionRatio[2] = DecimalScale
          /\ r.TotalSent > 0 =>
               /\ 2 * n * r.TotalSent - 2 * DecimalScale * r.TotalRejected <= r.TotalSent
               /\ 2 * DecimalScale * r.TotalRejected - 2 * n * r.TotalSent <= r.TotalSent
          /\ r.TotalSent = 0 => n = 0

\* C18 witness: a stored state whose ratio is not a multiple of 0.0001 (4 rejected
\* of an estimate taken while the window held 3 failures), and a computed state
\* with nothing sent
C18_Witness ==
  /\ classifier.stored # NotFound
  /\ classifier.stored.TotalSent > 0
  /\ classifier.stored.RejectionRatio[1] * classifier.stored.TotalSent
       # classifier.stored.TotalRejected * DecimalScale
  /\ classifier.stored.TotalRejected = MaxWindow

\* ======================================================================
\* Properties of the recipient domain (DomainSpec)
\* ======================================================================

\* C21: the recipient domain of every stored failure is the text after the last
\* "@" of its recipient address, in lower case.
C21_DomainLowerCased ==
  (extracted.stored /\ \E i \in DOMAIN extracted.recipient : extracted.recipient[i] = "@")
    => extracted.recipient_domain
         = Concat([i \in DOMAIN afterLastAt(extracted.recipient)
                     |-> ToLower(afterLastAt(extracted.recipient)[i])])

====
